---- MODULE Spec2Model ----
(***************************************************************************)
(* A model of wgengine/magicsock (magicsock.go): the peer index (peerMap), *)
(* the per-peer path state machine (endpoint), the send path, the DERP     *)
(* (relay) client table with its bounded write channels, and the shutdown  *)
(* protocols of Conn.Close and connBind.Close.                             *)
(*                                                                         *)
(* Time is a natural number of milliseconds; 0 is the zero time.Time /     *)
(* mono.Time ("never").  Go maps are functions whose DOMAIN is the set of  *)
(* keys present.  Go pointers to endpoint, peerInfo and derphttp.Client are *)
(* identifiers into a heap; 0 is nil.                                      *)
(***************************************************************************)
EXTENDS Integers, Sequences, FiniteSets, Bags, TLC

(***************************************************************************)
(* Program constants (magicsock.go).                                       *)
(***************************************************************************)
\* the literal 10*time.Second of endpoint.noteRecvActivity
recvActivityInterval == 10000
sessionActiveTimeout == 120000
upgradeInterval == 60000
heartbeatInterval == 2000
discoPingInterval == 5000
pingTimeoutDuration == 5000
trustUDPAddrDuration == 5000
goodEnoughLatency == 5
bufferedDerpWritesBeforeDrop == 32
indexSentinelDeleted == -1
endpointsFreshEnoughDuration == 27000
derpInactiveCleanupTime == 60000
derpCleanStaleInterval == 15000
DerpMagicIP == "127.3.3.40"

(***************************************************************************)
(* Bounds of the model.                                                    *)
(***************************************************************************)
\* how many times the clock may advance in one behaviour
MaxTicks == 1
\* how many relay clients one region gets, one after the other
MaxGenerations == 3
\* how many payloads the upper layer hands to Send while reverse routes come
\* and go
MaxRouteSends == 3
\* how many discovery transaction ids (stun.NewTxID) may be drawn
MaxTx == 2
\* how many payloads the upper layer hands to Send: against a relay queue
\* that is not drained, and while the paths of a peer are explored
MaxSends == 34
MaxPathSends == 2
\* how many DERP clients may be created
MaxClients == 2
MaxNotes == 4
MaxLatency == 21
MaxBeats == 3            \* the clock moves at most this often between heartbeats
MaxEndpoints == 2        \* the longest list of endpoints an update determines

(***************************************************************************)
(* Values.                                                                 *)
(***************************************************************************)
ZeroIPPort == [ip |-> "", port |-> 0]
IPPortFrom(ip, port) == [ip |-> ip, port |-> port]
DerpAddrOf(region) == IPPortFrom(DerpMagicIP, region)
V4IPs == {"198.51.100.7", DerpMagicIP}
V6IPs == {"2001:db8::5"}
Is4(ipp) == ipp.ip \in V4IPs
Is6(ipp) == ipp.ip \in V6IPs
IsZeroIPPort(ipp) == ipp = ZeroIPPort
Addr4 == IPPortFrom("198.51.100.7", 41641)
Addr6 == IPPortFrom("2001:db8::5", 41641)

\* a Go map as a function: delete(m, k), m[k] = v
MapDelete(m, k) == [x \in DOMAIN m \ {k} |-> m[x]]
MapPut(m, k, v) == [x \in DOMAIN m \cup {k} |-> IF x = k THEN v ELSE m[x]]
EmptyMap == [x \in {} |-> 0]
MapDeleteAll(m, ks) == [x \in DOMAIN m \ ks |-> m[x]]

Max2(a, b) == IF a >= b THEN a ELSE b

(***************************************************************************)
(* endpointState and endpoint (type endpoint struct, magicsock.go).        *)
(***************************************************************************)
ZeroAddrLatency == [ipp |-> ZeroIPPort, latency |-> 0]

\* &endpointState{...} with the named fields set and the others zero
NewEndpointState(lastGotPing, callMeMaybeTime, index) ==
    [lastPing |-> 0, lastGotPing |-> lastGotPing,
     callMeMaybeTime |-> callMeMaybeTime, index |-> index]

\* &endpoint{c, publicKey, sentPing: {}, endpointState: {}} plus discoKey
\* (lastPingFrom/lastPingTime and pendingCLIPings decide only logging and
\* CLI pings).  numStopAndResetAtomic is read only to compare it with the
\* gen of a receiver's ippEndpointCache: cachedBy is the set of receivers
\* whose cache holds this endpoint with gen equal to the counter.
NewEndpoint(publicKey, discoKey) ==
    [publicKey |-> publicKey, discoKey |-> discoKey,
     derpAddr |-> ZeroIPPort,
     heartBeatTimer |-> 0, lastSend |-> 0, lastFullPing |-> 0, lastRecv |-> 0,
     bestAddr |-> ZeroAddrLatency, bestAddrAt |-> 0, trustBestAddrUntil |-> 0,
     sentPing |-> EmptyMap, endpointState |-> EmptyMap,
     isCallMeMaybeEP |-> {},
     ipPorts |-> {},
     cachedBy |-> {}]

canP2P(de) == de.discoKey # 0

shouldDeleteLocked(st, now) ==
    IF st.callMeMaybeTime # 0 THEN FALSE
    ELSE IF st.lastGotPing = 0 THEN st.index = indexSentinelDeleted
    ELSE now - st.lastGotPing > sessionActiveTimeout

\* a faulty variant: clears the path state and keeps the best address
deleteEndpointLockedKeepBest(de, ep) ==
    [de EXCEPT !.endpointState = MapDelete(@, ep)]

deleteEndpointLocked(de, ep) ==
    [de EXCEPT !.endpointState = MapDelete(@, ep),
               !.bestAddr = IF @.ipp = ep THEN ZeroAddrLatency ELSE @]

\* for ep, st := range de.endpointState { if st.shouldDeleteLocked() { delete } }
RECURSIVE DeleteAll(_, _)
DeleteAll(de, eps) ==
    IF eps = {} THEN de
    ELSE LET ep == CHOOSE x \in eps : TRUE
         IN DeleteAll(deleteEndpointLocked(de, ep), eps \ {ep})

PruneLocked(de, now) ==
    DeleteAll(de, {ep \in DOMAIN de.endpointState :
                      shouldDeleteLocked(de.endpointState[ep], now)})

\* a faulty variant: the relay address is returned whatever the state of the best path
addrForSendLockedAlwaysDerp(de, now) ==
    [udpAddr |-> de.bestAddr.ipp, derpAddr |-> de.derpAddr]

\* a faulty variant: the relay address is returned only when there is no best path
addrForSendLockedNoExpiry(de, now) ==
    [udpAddr |-> de.bestAddr.ipp,
     derpAddr |-> IF IsZeroIPPort(de.bestAddr.ipp) THEN de.derpAddr ELSE ZeroIPPort]

addrForSendLocked(de, now) ==
    LET udpAddr == de.bestAddr.ipp
    IN [udpAddr |-> udpAddr,
        derpAddr |-> IF IsZeroIPPort(udpAddr) \/ now > de.trustBestAddrUntil
                     THEN de.derpAddr ELSE ZeroIPPort]

wantFullPingLocked(de, now) ==
    IF ~canP2P(de) THEN FALSE
    ELSE IF de.bestAddr = ZeroAddrLatency \/ de.lastFullPing = 0 THEN TRUE
    ELSE IF now > de.trustBestAddrUntil THEN TRUE
    ELSE IF de.bestAddr.latency <= goodEnoughLatency THEN FALSE
    ELSE now - de.lastFullPing >= upgradeInterval

noteActiveLocked(de, now) ==
    [de EXCEPT !.lastSend = now,
               !.heartBeatTimer = IF @ = 0 /\ canP2P(de)
                                  THEN now + heartbeatInterval ELSE @]

(***************************************************************************)
(* Operations that start pings work on a record                            *)
(*   [de, tx, out]                                                         *)
(* de: the endpoint, tx: the next unused transaction id, out: the          *)
(* sendDiscoPing goroutines started (to, txid).                            *)
(***************************************************************************)
\* a faulty variant: the ping goes out and nothing is kept of it
startPingLockedNoRecord(r, ep, now, purpose) ==
    [de |-> r.de, tx |-> r.tx + 1, out |-> r.out \cup {[to |-> ep, txid |-> r.tx]}]

startPingLocked(r, ep, now, purpose) ==
    IF purpose # "pingCLI" /\ ep \notin DOMAIN r.de.endpointState THEN r
    ELSE LET de1 == IF purpose # "pingCLI"
                    THEN [r.de EXCEPT !.endpointState[ep].lastPing = now]
                    ELSE r.de
         IN [de |-> [de1 EXCEPT !.sentPing =
                        MapPut(@, r.tx, [to |-> ep, at |-> now, purpose |-> purpose])],
             tx |-> r.tx + 1,
             out |-> r.out \cup {[to |-> ep, txid |-> r.tx]}]

\* a faulty variant: the time of the last ping does not hold a ping back
RECURSIVE PingEachAlways(_, _, _)
PingEachAlways(r, eps, now) ==
    IF eps = {} THEN r
    ELSE LET ep == CHOOSE x \in eps : TRUE
             st == r.de.endpointState[ep]
             r1 == IF shouldDeleteLocked(st, now)
                   THEN [r EXCEPT !.de = deleteEndpointLocked(r.de, ep)]
                   ELSE startPingLocked(r, ep, now, "pingDiscovery")
         IN PingEachAlways(r1, eps \ {ep}, now)

RECURSIVE PingEach(_, _, _)
PingEach(r, eps, now) ==
    IF eps = {} THEN r
    ELSE LET ep == CHOOSE x \in eps : TRUE
             st == r.de.endpointState[ep]
             r1 == IF shouldDeleteLocked(st, now)
                   THEN [r EXCEPT !.de = deleteEndpointLocked(r.de, ep)]
                   ELSE IF st.lastPing # 0 /\ now - st.lastPing < discoPingInterval
                   THEN r
                   ELSE startPingLocked(r, ep, now, "pingDiscovery")
         IN PingEach(r1, eps \ {ep}, now)

\* sendPingsLocked; wantCMM: whether `go de.c.enqueueCallMeMaybe` was started
sendPingsLocked(r, now, sendCallMeMaybe) ==
    LET r0 == [r EXCEPT !.de.lastFullPing = now]
        r1 == PingEach(r0, DOMAIN r0.de.endpointState, now)
        sentAny == r1.tx # r.tx
    IN [de |-> r1.de, tx |-> r1.tx, out |-> r1.out,
        wantCMM |-> sentAny /\ sendCallMeMaybe /\ ~IsZeroIPPort(r1.de.derpAddr)]

\* the part of endpoint.send that runs under de.mu
sendLocked(de, tx, now) ==
    LET a == addrForSendLocked(de, now)
        probe == canP2P(de) /\ (IsZeroIPPort(a.udpAddr) \/ now > de.trustBestAddrUntil)
        r == IF probe
             THEN sendPingsLocked([de |-> de, tx |-> tx, out |-> {}], now, TRUE)
             ELSE [de |-> de, tx |-> tx, out |-> {}, wantCMM |-> FALSE]
    IN [de |-> noteActiveLocked(r.de, now), tx |-> r.tx, out |-> r.out,
        wantCMM |-> r.wantCMM, probe |-> probe,
        udpAddr |-> a.udpAddr, derpAddr |-> a.derpAddr]

\* a faulty variant: the heartbeat goes on however long ago the last send was
heartbeatNeverIdle(de, tx, now) ==
    LET de0 == [de EXCEPT !.heartBeatTimer = 0]
        idle == [de |-> de0, tx |-> tx, out |-> {}, wantCMM |-> FALSE]
    IN IF ~canP2P(de0) THEN idle
       ELSE IF de0.lastSend = 0 THEN idle
       ELSE LET a == addrForSendLocked(de0, now)
                r1 == IF ~IsZeroIPPort(a.udpAddr)
                      THEN startPingLocked([de |-> de0, tx |-> tx, out |-> {}],
                                           a.udpAddr, now, "pingHeartbeat")
                      ELSE [de |-> de0, tx |-> tx, out |-> {}]
                r2 == IF wantFullPingLocked(r1.de, now)
                      THEN sendPingsLocked(r1, now, TRUE)
                      ELSE [de |-> r1.de, tx |-> r1.tx, out |-> r1.out, wantCMM |-> FALSE]
            IN [r2 EXCEPT !.de.heartBeatTimer = now + heartbeatInterval]

\* endpoint.heartbeat, once the timer has fired
heartbeat(de, tx, now) ==
    LET de0 == [de EXCEPT !.heartBeatTimer = 0]
        idle == [de |-> de0, tx |-> tx, out |-> {}, wantCMM |-> FALSE]
    IN IF ~canP2P(de0) THEN idle
       ELSE IF de0.lastSend = 0 THEN idle
       ELSE IF now - de0.lastSend > sessionActiveTimeout THEN idle
       ELSE LET a == addrForSendLocked(de0, now)
                r1 == IF ~IsZeroIPPort(a.udpAddr)
                      THEN startPingLocked([de |-> de0, tx |-> tx, out |-> {}],
                                           a.udpAddr, now, "pingHeartbeat")
                      ELSE [de |-> de0, tx |-> tx, out |-> {}]
                r2 == IF wantFullPingLocked(r1.de, now)
                      THEN sendPingsLocked(r1, now, TRUE)
                      ELSE [de |-> r1.de, tx |-> r1.tx, out |-> r1.out, wantCMM |-> FALSE]
            IN [r2 EXCEPT !.de.heartBeatTimer = now + heartbeatInterval]

\* endpoint.pingTimeout and endpoint.forgetPing: both remove the entry if present
removeSentPing(de, txid) ==
    [de EXCEPT !.sentPing = MapDelete(@, txid)]

\* endpoint.updateFromNode; n.Endpoints is a sequence of IPPort
RECURSIVE WalkEndpoints(_, _, _)
WalkEndpoints(es, eps, i) ==
    IF i > Len(eps) THEN es
    ELSE LET ipp == eps[i]
             es1 == IF ipp \in DOMAIN es
                    THEN [es EXCEPT ![ipp].index = i - 1]
                    ELSE MapPut(es, ipp, NewEndpointState(0, 0, i - 1))
         IN WalkEndpoints(es1, eps, i + 1)

\* a faulty variant: no state is deleted
updateFromNodeNoPrune(de, n, now) ==
    LET marked == [ep \in DOMAIN de.endpointState |->
                      [de.endpointState[ep] EXCEPT !.index = indexSentinelDeleted]]
    IN [de EXCEPT !.derpAddr = n.DERP,
                  !.endpointState = WalkEndpoints(marked, n.Endpoints, 1)]

updateFromNode(de, n, now) ==
    LET marked == [ep \in DOMAIN de.endpointState |->
                      [de.endpointState[ep] EXCEPT !.index = indexSentinelDeleted]]
        de1 == [de EXCEPT !.derpAddr = n.DERP,
                          !.endpointState = WalkEndpoints(marked, n.Endpoints, 1)]
    IN PruneLocked(de1, now)

addCandidateEndpoint(de, ep, now) ==
    IF ep \in DOMAIN de.endpointState
    THEN IF de.endpointState[ep].lastGotPing = 0 THEN de
         ELSE [de EXCEPT !.endpointState[ep].lastGotPing = now]
    ELSE LET de1 == [de EXCEPT !.endpointState =
                        MapPut(@, ep, NewEndpointState(now, 0, 0))]
         IN IF Cardinality(DOMAIN de1.endpointState) > 100
            THEN PruneLocked(de1, now) ELSE de1

noteConnectivityChange(de) == [de EXCEPT !.trustBestAddrUntil = 0]

\* the endpoints keep latencies in whole milliseconds.  Duration(al) has the
\* latency in tenths of a millisecond: a whole number of tens, as the number
\* of nanoseconds is, so that betterAddr divides it without a remainder
Duration(al) == [al EXCEPT !.latency = @ * 10]

\* betterAddr on latencies as Go has them, a time.Duration being an integer
\* number of nanoseconds: a.latency/10*9 divides first, and rounds down
RECURSIVE betterAddr(_, _)
betterAddr(a, b) ==
    IF a.ipp = b.ipp THEN FALSE
    ELSE IF IsZeroIPPort(b.ipp) THEN TRUE
    ELSE IF IsZeroIPPort(a.ipp) THEN FALSE
    ELSE IF Is6(a.ipp) /\ Is4(b.ipp) /\ (a.latency \div 10) * 9 < b.latency THEN TRUE
    ELSE IF Is4(a.ipp) /\ Is6(b.ipp) /\ betterAddr(b, a) THEN FALSE
    ELSE a.latency < b.latency

\* endpoint.handleCallMeMaybe; eps: m.MyNumber without link-local IPv6 addresses
\* a faulty variant: the times of the last pings are left as they are
handleCallMeMaybeKeepLastPing(de, tx, eps, now) ==
    LET es1 == [ep \in DOMAIN de.endpointState \cup eps |->
                   IF ep \in eps
                   THEN IF ep \in DOMAIN de.endpointState
                        THEN [de.endpointState[ep] EXCEPT !.callMeMaybeTime = now]
                        ELSE NewEndpointState(0, now, 0)
                   ELSE de.endpointState[ep]]
        de1 == [de EXCEPT !.endpointState = es1, !.isCallMeMaybeEP = eps]
        de2 == DeleteAll(de1, de.isCallMeMaybeEP \ eps)
    IN sendPingsLocked([de |-> de2, tx |-> tx, out |-> {}], now, FALSE)

handleCallMeMaybe(de, tx, eps, now) ==
    LET es1 == [ep \in DOMAIN de.endpointState \cup eps |->
                   IF ep \in eps
                   THEN IF ep \in DOMAIN de.endpointState
                        THEN [de.endpointState[ep] EXCEPT !.callMeMaybeTime = now]
                        ELSE NewEndpointState(0, now, 0)
                   ELSE de.endpointState[ep]]
        de1 == [de EXCEPT !.endpointState = es1, !.isCallMeMaybeEP = eps]
        de2 == DeleteAll(de1, de.isCallMeMaybeEP \ eps)
        de3 == [de2 EXCEPT !.endpointState =
                   [ep \in DOMAIN @ |-> [@[ep] EXCEPT !.lastPing = 0]]]
    IN sendPingsLocked([de |-> de3, tx |-> tx, out |-> {}], now, FALSE)

stopAndReset(de) ==
    [de EXCEPT !.lastSend = 0, !.lastFullPing = 0,
               !.bestAddr = ZeroAddrLatency, !.bestAddrAt = 0,
               !.trustBestAddrUntil = 0,
               !.endpointState = [ep \in DOMAIN @ |-> [@[ep] EXCEPT !.lastPing = 0]],
               !.sentPing = EmptyMap,
               !.heartBeatTimer = 0,
               !.cachedBy = {}]

(***************************************************************************)
(* peerMap.  A peerInfo and the endpoint it holds are one heap object:     *)
(* peerInfo.ep is set when the peerInfo is created and never changes for   *)
(* the non-zero node keys the control plane hands out.  The operations     *)
(* work on a record w = [pm, hp]: the three indexes and the heap.          *)
(***************************************************************************)
newPeerMap == [byDiscoKey |-> EmptyMap, byNodeKey |-> EmptyMap, byIPPort |-> EmptyMap]

Lookup(m, k) == IF k \in DOMAIN m THEN m[k] ELSE 0

endpointForDiscoKey(pm, dk) == IF dk = 0 THEN 0 ELSE Lookup(pm.byDiscoKey, dk)

endpointForNodeKey(pm, nk) == IF nk = 0 THEN 0 ELSE Lookup(pm.byNodeKey, nk)

endpointForIPPort(pm, ipp) == Lookup(pm.byIPPort, ipp)

\* id: a fresh heap object holding the new endpoint (ipPorts empty)
upsertDiscoEndpoint(w, id) ==
    LET ep == w.hp[id]
    IN [w EXCEPT !.pm.byNodeKey = MapPut(@, ep.publicKey, id),
                 !.pm.byDiscoKey = MapPut(@, ep.discoKey, id)]

\* a faulty variant: leaves the address in the set of its previous holder
setDiscoKeyForIPPortNoClean(w, ipp, dk) ==
    IF dk \in DOMAIN w.pm.byDiscoKey
    THEN LET pi == w.pm.byDiscoKey[dk]
         IN [w EXCEPT !.hp[pi].ipPorts = @ \cup {ipp},
                      !.pm.byIPPort = MapPut(@, ipp, pi)]
    ELSE [w EXCEPT !.pm.byIPPort = MapDelete(@, ipp)]

setDiscoKeyForIPPort(w, ipp, dk) ==
    LET w1 == IF ipp \in DOMAIN w.pm.byIPPort
              THEN [w EXCEPT !.hp[w.pm.byIPPort[ipp]].ipPorts = @ \ {ipp},
                             !.pm.byIPPort = MapDelete(@, ipp)]
              ELSE w
    IN IF dk \in DOMAIN w1.pm.byDiscoKey
       THEN LET pi == w1.pm.byDiscoKey[dk]
            IN [w1 EXCEPT !.hp[pi].ipPorts = @ \cup {ipp},
                          !.pm.byIPPort = MapPut(@, ipp, pi)]
       ELSE w1

deleteDiscoEndpoint(w, id) ==
    IF id = 0 THEN w
    ELSE LET ep == w.hp[id]
             pi == Lookup(w.pm.byNodeKey, ep.publicKey)
             w1 == [w EXCEPT !.hp[id] = stopAndReset(@),
                             !.pm.byDiscoKey = MapDelete(@, ep.discoKey),
                             !.pm.byNodeKey = MapDelete(@, ep.publicKey)]
         IN IF pi = 0 THEN w1
            ELSE [w1 EXCEPT !.pm.byIPPort = MapDeleteAll(@, w.hp[pi].ipPorts)]

setAddrToDiscoLocked(w, src, newk) ==
    LET old == endpointForIPPort(w.pm, src)
    IN IF old # 0 /\ w.hp[old].discoKey = newk THEN w
       ELSE setDiscoKeyForIPPort(w, src, newk)

(***************************************************************************)
(* Conn.SetNetworkMap, after its closed and nodesEqual checks.             *)
(***************************************************************************)
Node(key, discoKey, derp, endpoints) ==
    [Key |-> key, DiscoKey |-> discoKey, DERP |-> derp, Endpoints |-> endpoints]

\* first loop: disco-capable peers; a disco key that moved to another node key
RECURSIVE UpdateDiscoPeers(_, _, _, _)
UpdateDiscoPeers(w, peers, i, now) ==
    IF i > Len(peers) THEN w
    ELSE LET n == peers[i]
             ep == endpointForDiscoKey(w.pm, n.DiscoKey)
             w1 == IF n.DiscoKey = 0 \/ ep = 0 THEN w
                   ELSE IF w.hp[ep].publicKey = n.Key
                   THEN [w EXCEPT !.hp[ep] = updateFromNode(@, n, now)]
                   ELSE deleteDiscoEndpoint([w EXCEPT !.hp[ep] = stopAndReset(@)], ep)
         IN UpdateDiscoPeers(w1, peers, i + 1, now)

\* the smallest heap id that names no object
FreshId(hp) == CHOOSE id \in 1..(Cardinality(DOMAIN hp) + 1) :
                  id \notin DOMAIN hp /\ \A j \in 1..(id - 1) : j \in DOMAIN hp

\* second loop: update known node keys, create the missing endpoints
RECURSIVE UpsertPeers(_, _, _, _)
UpsertPeers(w, peers, i, now) ==
    IF i > Len(peers) THEN w
    ELSE LET n == peers[i]
             ep == endpointForNodeKey(w.pm, n.Key)
             id == FreshId(w.hp)
             new == NewEndpoint(n.Key, n.DiscoKey)
             w1 == IF ep # 0
                   THEN [w EXCEPT !.hp[ep] = updateFromNode(@, n, now)]
                   ELSE upsertDiscoEndpoint(
                            [w EXCEPT !.hp = MapPut(@, id, updateFromNode(new, n, now))], id)
         IN UpsertPeers(w1, peers, i + 1, now)

\* third pass: delete the endpoints whose node key is not in the new map
RECURSIVE DeleteMoribund(_, _)
DeleteMoribund(w, ids) ==
    IF ids = {} THEN w
    ELSE LET id == CHOOSE x \in ids : TRUE
         IN DeleteMoribund(deleteDiscoEndpoint(w, id), ids \ {id})

\* a faulty variant: the peers that left the network map are never deleted
SetNetworkMapLockedNoPrune(w, peers, now) ==
    UpsertPeers(UpdateDiscoPeers(w, peers, 1, now), peers, 1, now)

SetNetworkMapLocked(w, peers, now) ==
    LET w1 == UpdateDiscoPeers(w, peers, 1, now)
        w2 == UpsertPeers(w1, peers, 1, now)
        keep == {peers[i].Key : i \in 1..Len(peers)}
    IN IF Cardinality(DOMAIN w2.pm.byNodeKey) # Len(peers)
       THEN DeleteMoribund(w2, {w2.pm.byNodeKey[k] : k \in DOMAIN w2.pm.byNodeKey \ keep})
       ELSE w2

(***************************************************************************)
(* The state.                                                              *)
(*   clock    now (ms) and how often it advanced                           *)
(*   conn     the scalar fields of Conn                                    *)
(*   peerMap  Conn.peerMap                                                 *)
(*   heap     the endpoint objects, by id                                  *)
(*   disco    transaction ids and the goroutines started with `go`         *)
(*   relay    activeDerp, the DERP clients and their goroutines            *)
(*   wg       the upper layer (wireguard-go): the endpoint handle it       *)
(*            holds and what its last calls returned                       *)
(*   closer   the goroutine inside Conn.Close                              *)
(*   bind     connBind, derpRecvCh and the receive functions               *)
(***************************************************************************)
VARIABLES clock, conn, peerMap, heap, disco, relay, wg, closer, bind, locks, cmp

vars == <<clock, conn, peerMap, heap, disco, relay, wg, closer, bind, locks, cmp>>

now == clock.now

NilDerpMap == [nil |-> TRUE, Regions |-> {}]
DerpMapOf(regions) == [nil |-> FALSE, Regions |-> regions]
NilNetMap == [nil |-> TRUE, Peers |-> <<>>]
NetMapOf(peers) == [nil |-> FALSE, Peers |-> peers]

NoSend == [b |-> 0, err |-> "none", udpTo |-> ZeroIPPort, derpTo |-> ZeroIPPort,
           udpSent |-> FALSE, derpSent |-> FALSE, udpErr |-> FALSE, derpErr |-> "nil",
           probe |-> FALSE, closed |-> FALSE]

\* the goroutines in which wireguard-go runs receiveIPv4, receiveIPv6 and
\* receiveDERP, and what one of them holds inside noteRecvActivity between
\* its load of lastRecv and its store: the endpoint, now and the value loaded
Receivers == {"v4", "v6", "derp"}
NotNoting == [ep |-> 0, now |-> 0, saw |-> 0]

\* the zero ippEndpointCache
EmptyCache == [ipp |-> ZeroIPPort, de |-> 0]

(***************************************************************************)
(* The mutexes: Conn.mu and the mu of two endpoints.  A handler is taken   *)
(* down to the Lock and Unlock calls it makes, in the order in which it    *)
(* makes them (a deferred Unlock comes last); what a handler starts with   *)
(* `go` is a goroutine of its own.  locks[t] is the number of calls that   *)
(* goroutine t has made of its sequence; one that is through starts again. *)
(***************************************************************************)
ConnMu == "c.mu"
PeerMus == {"de1.mu", "de2.mu"}
Lock(m) == [op |-> "Lock", mu |-> m]
Unlock(m) == [op |-> "Unlock", mu |-> m]

\* a faulty variant: the relay lookup is made before endpoint.mu is released
sendLocksNested(de) == <<Lock(de), Lock(ConnMu), Unlock(ConnMu), Unlock(de)>>

\* Conn.Send, endpoint.send: de.mu around the choice of addresses, then
\* sendAddr, whose derpWriteChanOfAddr takes c.mu
sendLocks(de) == <<Lock(de), Unlock(de), Lock(ConnMu), Unlock(ConnMu)>>

\* endpoint.heartbeat; startPingLocked and sendPingsLocked lock nothing
heartbeatLocks(de) == <<Lock(de), Unlock(de)>>

\* endpoint.pingTimeout
pingTimeoutLocks(de) == <<Lock(de), Unlock(de)>>

\* sendDiscoPing: sendDiscoMessage (c.mu, then derpWriteChanOfAddr's c.mu),
\* then forgetPing when nothing was sent
sendDiscoPingLocks(de) ==
    <<Lock(ConnMu), Unlock(ConnMu), Lock(ConnMu), Unlock(ConnMu), Lock(de), Unlock(de)>>

\* handleDiscoMessage with a pong: handlePongConnLocked under c.mu
handlePongLocks(de) == <<Lock(ConnMu), Lock(de), Unlock(de), Unlock(ConnMu)>>

\* handleDiscoMessage with a call-me-maybe, and the handleCallMeMaybe it starts
handleCallMeMaybeLocks(de) == <<Lock(ConnMu), Unlock(ConnMu), Lock(de), Unlock(de)>>

\* enqueueCallMeMaybe, started by sendPingsLocked
enqueueCallMeMaybeLocks == <<Lock(ConnMu), Unlock(ConnMu)>>

\* under c.mu, one endpoint after the other: updateFromNode or stopAndReset
\* in SetNetworkMap, populatePeerStatus in UpdateStatus
forEachLocks == <<Lock(ConnMu), Lock("de1.mu"), Unlock("de1.mu"),
                  Lock("de2.mu"), Unlock("de2.mu"), Unlock(ConnMu)>>

\* Conn.Close: stopAndReset of every endpoint, then muCond.Wait, which
\* unlocks c.mu and locks it again
CloseLocks == <<Lock(ConnMu), Lock("de1.mu"), Unlock("de1.mu"),
                Lock("de2.mu"), Unlock("de2.mu"),
                Unlock(ConnMu), Lock(ConnMu), Unlock(ConnMu)>>

LockTasks == {"send", "heartbeat", "pingTimeout", "sendDiscoPing", "pong",
              "callMeMaybe", "enqueueCallMeMaybe", "SetNetworkMap",
              "UpdateStatus", "Close"}

LockScript(t) ==
    CASE t = "send" -> sendLocks("de1.mu")
      [] t = "heartbeat" -> heartbeatLocks("de1.mu")
      [] t = "pingTimeout" -> pingTimeoutLocks("de2.mu")
      [] t = "sendDiscoPing" -> sendDiscoPingLocks("de2.mu")
      [] t = "pong" -> handlePongLocks("de1.mu")
      [] t = "callMeMaybe" -> handleCallMeMaybeLocks("de2.mu")
      [] t = "enqueueCallMeMaybe" -> enqueueCallMeMaybeLocks
      [] t = "SetNetworkMap" -> forEachLocks
      [] t = "UpdateStatus" -> forEachLocks
      [] t = "Close" -> CloseLocks

\* cmp: two values of addrLatency and what betterAddr returns for them, in
\* either order, once it has been called
NoResult == [done |-> FALSE, ab |-> FALSE, ba |-> FALSE]
NoCmp == [a |-> ZeroAddrLatency, b |-> ZeroAddrLatency, res |-> NoResult]

\* newConn, NewConn and connBind{closed: true}; Options.NoteRecvActivity is set
InitConn ==
    /\ clock = [now |-> 1, ticks |-> 0]
    /\ conn = [closed |-> FALSE, networkUp |-> TRUE, privateKey |-> 0,
               everHadKey |-> FALSE, discoPrivate |-> FALSE,
               derpMap |-> NilDerpMap, netMap |-> NilNetMap,
               noV4 |-> FALSE, noV6 |-> FALSE,
               pconn4 |-> "open", pconn6 |-> "open",
               endpointsUpdateActive |-> FALSE, wantEndpointsUpdate |-> FALSE,
               goUpdateEndpoints |-> "none", updaters |-> 0, myDerp |-> 0,
               lastEndpointsTime |-> 0, onEndpointRefreshed |-> {},
               lastEndpoints |-> <<>>]
    /\ peerMap = newPeerMap
    /\ heap = EmptyMap
    /\ disco = [nextTx |-> 1, pings |-> {}, cmm |-> {}, wantCMM |-> {}, cmmOut |-> {},
                restun |-> {}, beats |-> EmptyBag, orphans |-> EmptyBag]
    /\ relay = [made |-> FALSE, activeDerp |-> EmptyMap, clients |-> EmptyMap,
                derpStarted |-> FALSE, connect |-> "none", goConnect |-> {},
                forwarded |-> 0, derpRoute |-> EmptyMap,
                cleanup |-> [armed |-> FALSE, at |-> 0]]
    /\ wg = [handle |-> 0, parse |-> "none", res |-> NoSend, dropped |-> {},
             noted |-> <<>>, ep |-> [calls |-> 0, last |-> <<>>]]
    /\ closer = [pc |-> "idle"]
    /\ bind = [closed |-> TRUE, mu |-> "free", closePc |-> "idle",
               derpPc |-> "idle", reader |-> 0,
               recv4 |-> "idle", recv6 |-> "idle",
               note |-> [r \in Receivers |-> NotNoting],
               cache |-> [r \in {"v4", "v6"} |-> EmptyCache]]
    /\ locks = [t \in LockTasks |-> 0]

Init == InitConn /\ cmp = NoCmp

\* c.mu is free: Conn.Close holds it from its first line until it parks in
\* muCond.Wait, and again from the moment it re-acquires it after a wake-up
MuFree == closer.pc \in {"idle", "waiting", "woken", "done"}

(***************************************************************************)
(* Garbage collection of endpoints nothing refers to any more: the indexes, *)
(* the upper layer's handle, goroutines, armed timers (their closures hold  *)
(* the endpoint).                                                           *)
(***************************************************************************)
Range(m) == {m[k] : k \in DOMAIN m}

Roots(pm, hp, d, c, w) ==
    Range(pm.byDiscoKey) \cup Range(pm.byNodeKey) \cup Range(pm.byIPPort)
    \cup {w.handle}
    \cup {g.ep : g \in d.pings \cup d.cmm \cup d.wantCMM \cup d.cmmOut
                        \cup c.onEndpointRefreshed
                        \cup BagToSet(d.beats) \cup BagToSet(d.orphans)}
    \cup {id \in DOMAIN hp : hp[id].heartBeatTimer # 0 \/ DOMAIN hp[id].sentPing # {}}

Collect(pm, hp, d, c, w) ==
    [id \in DOMAIN hp \cap Roots(pm, hp, d, c, w) |-> hp[id]]

\* every endpoint of the peer map, as forEachDiscoEndpoint visits them
\* f names the function applied: stopAndReset or noteConnectivityChange
forEachDiscoEndpoint(pm, hp, f) ==
    [id \in DOMAIN hp |->
        IF id \notin Range(pm.byNodeKey) THEN hp[id]
        ELSE IF f = "stopAndReset" THEN stopAndReset(hp[id])
        ELSE noteConnectivityChange(hp[id])]

\* `go ad.c.Close()`: the goroutine that closes the connection is started
goClose(dc) == IF dc = "open" THEN "closing" ELSE dc

\* closeAllDerpLocked: cancel every active client and empty the table
closeAllDerpLocked(r) ==
    [r EXCEPT !.clients = [id \in DOMAIN @ |->
                              IF id \in Range(r.activeDerp)
                              THEN [@[id] EXCEPT !.ctxDone = TRUE, !.dc = goClose(@)]
                              ELSE @[id]],
              !.activeDerp = EmptyMap]

\* Conn.ReSTUN under c.mu: starts updateEndpoints, or notes that one more
\* run is wanted if one is active
reSTUN(c) ==
    IF c.closed \/ (c.privateKey = 0 /\ c.everHadKey) THEN c
    ELSE IF c.endpointsUpdateActive THEN [c EXCEPT !.wantEndpointsUpdate = TRUE]
    ELSE [c EXCEPT !.endpointsUpdateActive = TRUE, !.goUpdateEndpoints = "running",
                   !.updaters = @ + 1]

\* arms the cleanup timer unless it is armed already
scheduleCleanStaleDerpLocked(r, t) ==
    IF r.cleanup.armed THEN r
    ELSE [r EXCEPT !.cleanup = [armed |-> TRUE, at |-> t + derpCleanStaleInterval]]

\* closeDerpLocked: cancel the client of region node and take it off the table
closeDerpLocked(r, node) ==
    IF node \notin DOMAIN r.activeDerp THEN r
    ELSE [r EXCEPT !.clients[r.activeDerp[node]].ctxDone = TRUE,
                   !.clients[r.activeDerp[node]].dc = goClose(@),
                   !.activeDerp = MapDelete(@, node)]

\* the regions cleanStaleDerp closes: not the home, last write before tooOld
StaleDerp(c, r, t) ==
    {i \in DOMAIN r.activeDerp :
        i # c.myDerp /\ r.clients[r.activeDerp[i]].lastWrite < t - derpInactiveCleanupTime}

RECURSIVE closeEachDerp(_, _)
closeEachDerp(r, nodes) ==
    IF nodes = {} THEN r
    ELSE LET i == CHOOSE x \in nodes : TRUE
         IN closeEachDerp(closeDerpLocked(r, i), nodes \ {i})

\* cleanStaleDerp, run by the timer that has fired
cleanStaleDerp(c, r, t) ==
    LET fired == [r EXCEPT !.cleanup.at = 0]
        stale == StaleDerp(c, r, t)
        someNonHomeOpen == \E i \in DOMAIN r.activeDerp : i # c.myDerp /\ i \notin stale
        swept == closeEachDerp([fired EXCEPT !.cleanup.armed = FALSE], stale)
    IN IF c.closed THEN fired
       ELSE IF someNonHomeOpen THEN scheduleCleanStaleDerpLocked(swept, t)
       ELSE swept

(***************************************************************************)
(* Actions.  Every method that takes c.mu runs as one step while c.mu is   *)
(* free.  Commit writes the variables an operation of Conn may change and  *)
(* drops the endpoints that became garbage.                                *)
(***************************************************************************)
World == [pm |-> peerMap, hp |-> heap]

Commit(c, w, d, r, u) ==
    /\ conn' = c
    /\ peerMap' = w.pm
    /\ heap' = Collect(w.pm, w.hp, d, c, u)
    /\ disco' = d
    /\ relay' = r
    /\ wg' = u

\* goDerpConnect: `go c.derpWriteChanOfAddr(home, key.Public{})` unless node is 0
goDerpConnect(r, node) ==
    IF node = 0 THEN r ELSE [r EXCEPT !.goConnect = @ \cup {node}]

\* Conn.SetPrivateKey.  Its `go c.ReSTUN(...)`, like that of SetDERPMap, is
\* one of the calls of ReSTUN that may come at any time.
SetPrivateKey(newKey) ==
    /\ MuFree
    /\ LET oldKey == conn.privateKey
           c1 == [conn EXCEPT !.privateKey = newKey]
           c2 == IF oldKey = 0
                 THEN [c1 EXCEPT !.everHadKey = TRUE]
                 ELSE IF newKey = 0 THEN [c1 EXCEPT !.onEndpointRefreshed = {}]
                 ELSE c1
           r0 == IF oldKey = 0 THEN relay ELSE closeAllDerpLocked(relay)
           r1 == IF newKey # 0 THEN goDerpConnect(r0, conn.myDerp) ELSE r0
           hp1 == IF newKey = 0
                  THEN forEachDiscoEndpoint(peerMap, heap, "stopAndReset")
                  ELSE heap
       IN IF newKey = oldKey
          THEN UNCHANGED <<conn, peerMap, heap, disco, relay, wg>>
          ELSE Commit(c2, [pm |-> peerMap, hp |-> hp1], disco, r1, wg)
    /\ UNCHANGED <<clock, closer, bind, locks, cmp>>

\* Conn.SetNetworkUp
SetNetworkUp(up) ==
    /\ MuFree
    /\ IF conn.networkUp = up
       THEN UNCHANGED <<conn, peerMap, heap, disco, relay, wg>>
       ELSE Commit([conn EXCEPT !.networkUp = up], World, disco,
                   IF up THEN goDerpConnect(relay, conn.myDerp)
                   ELSE closeAllDerpLocked(relay),
                   wg)
    /\ UNCHANGED <<clock, closer, bind, locks, cmp>>

\* Conn.DiscoPublicKey: creates the disco private key on first use
DiscoPublicKey ==
    /\ MuFree
    /\ conn' = [conn EXCEPT !.discoPrivate = TRUE]
    /\ UNCHANGED <<clock, peerMap, heap, disco, relay, wg, closer, bind, locks, cmp>>

\* Conn.SetDERPMap
SetDERPMap(dm) ==
    /\ MuFree
    /\ IF dm = conn.derpMap
       THEN UNCHANGED <<conn, peerMap, heap, disco, relay, wg>>
       ELSE Commit([conn EXCEPT !.derpMap = dm], World, disco,
                   IF dm.nil THEN closeAllDerpLocked(relay) ELSE relay, wg)
    /\ UNCHANGED <<clock, closer, bind, locks, cmp>>

nodesEqual(x, y) == x = y

\* Conn.SetNetworkMap
SetNetworkMap(peers) ==
    /\ MuFree
    /\ IF conn.closed \/ (~conn.netMap.nil /\ nodesEqual(conn.netMap.Peers, peers))
       THEN UNCHANGED <<conn, peerMap, heap, disco, relay, wg>>
       ELSE Commit([conn EXCEPT !.netMap = NetMapOf(peers)],
                   SetNetworkMapLocked(World, peers, now), disco, relay, wg)
    /\ UNCHANGED <<clock, closer, bind, locks, cmp>>

\* Conn.ParseEndpoint: the upper layer keeps the handle it is given
ParseEndpoint(nk) ==
    /\ MuFree
    /\ LET ep == endpointForNodeKey(peerMap, nk)
           u == IF conn.closed THEN [wg EXCEPT !.parse = "Closed"]
                ELSE IF ep = 0 THEN [wg EXCEPT !.parse = "PeerUnknown"]
                ELSE [wg EXCEPT !.parse = "ok", !.handle = ep]
       IN Commit(conn, World, disco, relay, u)
    /\ UNCHANGED <<clock, closer, bind, locks, cmp>>

\* the clock advances by d milliseconds
Tick(d) ==
    /\ clock.ticks < MaxTicks
    /\ clock' = [now |-> clock.now + d, ticks |-> clock.ticks + 1]
    /\ UNCHANGED <<conn, peerMap, heap, disco, relay, wg, closer, bind, locks, cmp>>

(***************************************************************************)
(* Sending: sendUDPStd, derpWriteChanOfAddr, sendAddr.                     *)
(* A DERP client (activeDerp value plus its reader and writer goroutines): *)
(*   region, writeCh (the requests queued), ctxDone (its context was       *)
(*   cancelled), gate (the start gate: 0 an already closed channel, -1     *)
(*   c.derpStarted, id > 0 the WaitGroupChan of client id), readerDone,    *)
(*   writerDone, lastWrite (the time of the last request for its write     *)
(*   channel), pkt (the sender of the packet its reader holds and offers   *)
(*   on derpRecvCh, 0 if none), peerPresent (the senders its reader saw),  *)
(*   dc (the derphttp client: "open", "closing" once `go ad.c.Close()` was *)
(*   started, "closed" once Close has run).                                *)
(* relay.derpRoute maps a peer to [derpID, dc]: the region and the client  *)
(* it was heard on.  relay.cleanup is derpCleanupTimerArmed and the time   *)
(* derpCleanupTimer fires at (0: stopped or fired).                        *)
(***************************************************************************)
\* werr: whether the operating system reports an error for this write
sendUDPStd(c, addr, werr) ==
    IF Is4(addr)
    THEN LET err == werr \/ c.pconn4 = "closed"
         IN IF err /\ c.noV4 THEN [sent |-> FALSE, err |-> "nil"]
            ELSE [sent |-> ~err, err |-> IF err THEN "udp" ELSE "nil"]
    ELSE LET err == werr \/ c.pconn6 = "closed"
         IN IF err /\ c.noV6 THEN [sent |-> FALSE, err |-> "nil"]
            ELSE [sent |-> ~err, err |-> IF err THEN "udp" ELSE "nil"]

WgDone(r, id) == r.clients[id].readerDone /\ r.clients[id].writerDone

GateOpen(r, id) ==
    LET g == r.clients[id].gate
    IN IF g = 0 THEN TRUE ELSE IF g = -1 THEN r.derpStarted ELSE WgDone(r, g)

\* *ad.lastWrite = time.Now()
noteWrite(r, id, t) == [r EXCEPT !.clients[id].lastWrite = t]

\* the reverse route of peer leads to an open client, the one that recorded it
routeUsable(r, peer) ==
    /\ peer # 0
    /\ peer \in DOMAIN r.derpRoute
    /\ r.derpRoute[peer].derpID \in DOMAIN r.activeDerp
    /\ r.activeDerp[r.derpRoute[peer].derpID] = r.derpRoute[peer].dc

\* c.prevDerp[regionID]: the last client made for the region, 0 if none
PrevDerp(r, region) ==
    LET ids == {id \in DOMAIN r.clients : r.clients[id].region = region}
    IN IF ids = {} THEN 0 ELSE CHOOSE id \in ids : \A j \in ids : j <= id

\* a faulty variant: makes a client also when there is no private key
derpWriteChanOfAddrAnyKey(c, r, addr, peer, t) ==
    LET region == addr.port
        firstDerp == ~r.made
        id == Cardinality(DOMAIN r.clients) + 1
        client == [region |-> region, writeCh |-> <<>>, ctxDone |-> FALSE,
                   gate |-> IF firstDerp THEN -1 ELSE PrevDerp(r, region),
                   readerDone |-> FALSE, writerDone |-> FALSE,
                   lastWrite |-> t, pkt |-> 0, peerPresent |-> {}, dc |-> "open"]
    IN IF addr.ip # DerpMagicIP \/ ~c.networkUp \/ c.derpMap.nil \/ c.closed
       THEN [r |-> r, ch |-> 0]
       ELSE IF region \in DOMAIN r.activeDerp
       THEN [r |-> noteWrite(r, r.activeDerp[region], t), ch |-> r.activeDerp[region]]
       ELSE IF routeUsable(r, peer)
       THEN [r |-> noteWrite(r, r.derpRoute[peer].dc, t), ch |-> r.derpRoute[peer].dc]
       ELSE IF region \notin c.derpMap.Regions
       THEN [r |-> [r EXCEPT !.made = TRUE], ch |-> 0]
       ELSE [r |-> scheduleCleanStaleDerpLocked(
                       [r EXCEPT !.made = TRUE,
                                 !.activeDerp = MapPut(@, region, id),
                                 !.clients = MapPut(@, id, client),
                                 !.connect = IF firstDerp THEN "connecting" ELSE @], t),
             ch |-> id]

\* a faulty variant: the reverse route of the peer comes before the open
\* client of the requested region
derpWriteChanOfAddrRouteFirst(c, r, addr, peer, t) ==
    LET region == addr.port
        firstDerp == ~r.made
        id == Cardinality(DOMAIN r.clients) + 1
        client == [region |-> region, writeCh |-> <<>>, ctxDone |-> FALSE,
                   gate |-> IF firstDerp THEN -1 ELSE PrevDerp(r, region),
                   readerDone |-> FALSE, writerDone |-> FALSE,
                   lastWrite |-> t, pkt |-> 0, peerPresent |-> {}, dc |-> "open"]
    IN IF addr.ip # DerpMagicIP \/ ~c.networkUp \/ c.derpMap.nil \/ c.closed
          \/ c.privateKey = 0
       THEN [r |-> r, ch |-> 0]
       ELSE IF routeUsable(r, peer)
       THEN [r |-> noteWrite(r, r.derpRoute[peer].dc, t), ch |-> r.derpRoute[peer].dc]
       ELSE IF region \in DOMAIN r.activeDerp
       THEN [r |-> noteWrite(r, r.activeDerp[region], t), ch |-> r.activeDerp[region]]
       ELSE IF region \notin c.derpMap.Regions
       THEN [r |-> [r EXCEPT !.made = TRUE], ch |-> 0]
       ELSE [r |-> scheduleCleanStaleDerpLocked(
                       [r EXCEPT !.made = TRUE,
                                 !.activeDerp = MapPut(@, region, id),
                                 !.clients = MapPut(@, id, client),
                                 !.connect = IF firstDerp THEN "connecting" ELSE @], t),
             ch |-> id]

\* returns the relay state and the client whose writeCh is returned (0: nil)
derpWriteChanOfAddr(c, r, addr, peer, t) ==
    LET region == addr.port
        firstDerp == ~r.made
        id == Cardinality(DOMAIN r.clients) + 1
        client == [region |-> region, writeCh |-> <<>>, ctxDone |-> FALSE,
                   gate |-> IF firstDerp THEN -1 ELSE PrevDerp(r, region),
                   readerDone |-> FALSE, writerDone |-> FALSE,
                   lastWrite |-> t, pkt |-> 0, peerPresent |-> {}, dc |-> "open"]
    IN IF addr.ip # DerpMagicIP \/ ~c.networkUp \/ c.derpMap.nil \/ c.closed
          \/ c.privateKey = 0
       THEN [r |-> r, ch |-> 0]
       ELSE IF region \in DOMAIN r.activeDerp
       THEN [r |-> noteWrite(r, r.activeDerp[region], t), ch |-> r.activeDerp[region]]
       ELSE IF routeUsable(r, peer)
       THEN [r |-> noteWrite(r, r.derpRoute[peer].dc, t), ch |-> r.derpRoute[peer].dc]
       ELSE IF region \notin c.derpMap.Regions
       THEN [r |-> [r EXCEPT !.made = TRUE], ch |-> 0]
       ELSE [r |-> scheduleCleanStaleDerpLocked(
                       [r EXCEPT !.made = TRUE,
                                 !.activeDerp = MapPut(@, region, id),
                                 !.clients = MapPut(@, id, client),
                                 !.connect = IF firstDerp THEN "connecting" ELSE @], t),
             ch |-> id]

\* a faulty variant: blocks nothing and drops nothing, the channel grows
sendAddrUnbounded(c, r, addr, peer, t, b, werr) ==
    IF addr.ip # DerpMagicIP
    THEN [r |-> r] @@ sendUDPStd(c, addr, werr)
    ELSE LET d == derpWriteChanOfAddr(c, r, addr, peer, t)
         IN IF d.ch = 0 THEN [r |-> d.r, sent |-> FALSE, err |-> "nil"]
            ELSE [r |-> [d.r EXCEPT !.clients[d.ch].writeCh = Append(@, b)],
                  sent |-> TRUE, err |-> "nil"]

\* sendAddr run to its end without another goroutine in between, so that
\* c.donec is closed only when derpWriteChanOfAddr has returned nil
sendAddr(c, r, addr, peer, t, b, werr) ==
    IF addr.ip # DerpMagicIP
    THEN [r |-> r] @@ sendUDPStd(c, addr, werr)
    ELSE LET d == derpWriteChanOfAddr(c, r, addr, peer, t)
         IN IF d.ch = 0 THEN [r |-> d.r, sent |-> FALSE, err |-> "nil"]
            ELSE IF c.closed THEN [r |-> d.r, sent |-> FALSE, err |-> "Closed"]
            ELSE IF Len(d.r.clients[d.ch].writeCh) < bufferedDerpWritesBeforeDrop
            THEN [r |-> [d.r EXCEPT !.clients[d.ch].writeCh = Append(@, b)],
                  sent |-> TRUE, err |-> "nil"]
            ELSE [r |-> d.r, sent |-> FALSE, err |-> "Drop"]

(***************************************************************************)
(* Conn.Send and endpoint.send, run to the end in one step.                *)
(*   b     the payload, numbered by the upper layer                        *)
(*   werr  whether the operating system fails the UDP write                *)
(* The result the upper layer sees is kept in wg.res.                      *)
(***************************************************************************)
StartedPings(id, out) == {[ep |-> id, to |-> o.to, txid |-> o.txid] : o \in out}

\* a faulty variant: a relay write that worked does not make up for a failed UDP write
sendResultIgnoreRelay(udpAddr, derpAddr, u, d) ==
    IF IsZeroIPPort(udpAddr) /\ IsZeroIPPort(derpAddr) THEN "NoPath"
    ELSE u.err

\* the value endpoint.send returns; u, d: what the two sendAddr calls returned
sendResult(udpAddr, derpAddr, u, d) ==
    IF IsZeroIPPort(udpAddr) /\ IsZeroIPPort(derpAddr) THEN "NoPath"
    ELSE IF ~IsZeroIPPort(derpAddr) /\ d.sent /\ u.err # "nil" THEN "nil"
    ELSE u.err

NotSent(r) == [r |-> r, sent |-> FALSE, err |-> "nil"]

Send(b, werr) ==
    /\ MuFree
    /\ wg.handle # 0
    /\ IF ~conn.networkUp
       THEN /\ wg' = [wg EXCEPT !.res = [NoSend EXCEPT !.b = b, !.err = "NetworkDown",
                                                        !.closed = conn.closed]]
            /\ UNCHANGED <<conn, peerMap, heap, disco, relay>>
       ELSE LET id == wg.handle
                s == sendLocked(heap[id], disco.nextTx, now)
                d1 == [disco EXCEPT
                         !.nextTx = s.tx,
                         !.pings = @ \cup StartedPings(id, s.out),
                         !.wantCMM = IF s.wantCMM
                                     THEN @ \cup {[ep |-> id, derpAddr |-> s.de.derpAddr]}
                                     ELSE @]
                u == IF IsZeroIPPort(s.udpAddr) THEN NotSent(relay)
                     ELSE sendAddr(conn, relay, s.udpAddr, heap[id].publicKey, now, b, werr)
                d == IF IsZeroIPPort(s.derpAddr) THEN NotSent(u.r)
                     ELSE sendAddr(conn, u.r, s.derpAddr, heap[id].publicKey, now, b, FALSE)
                res == [b |-> b, err |-> sendResult(s.udpAddr, s.derpAddr, u, d),
                        udpTo |-> s.udpAddr, derpTo |-> s.derpAddr,
                        udpSent |-> u.sent, derpSent |-> d.sent,
                        udpErr |-> u.err # "nil", derpErr |-> d.err,
                        probe |-> s.probe, closed |-> conn.closed]
            IN /\ s.tx <= MaxTx + 1
               /\ Cardinality(DOMAIN d.r.clients) <= MaxClients
               /\ Commit(conn, [pm |-> peerMap, hp |-> [heap EXCEPT ![id] = s.de]],
                         d1, d.r,
                         [wg EXCEPT !.res = res,
                                    !.dropped = IF d.err = "Drop" \/ u.err = "Drop"
                                                THEN @ \cup {b} ELSE @])
    /\ UNCHANGED <<clock, closer, bind, locks, cmp>>

\* the next payload of the upper layer, which sends at most max of them
SendNext(max, werr) ==
    /\ wg.res.b < max
    /\ Send(wg.res.b + 1, werr)

(***************************************************************************)
(* Discovery.  A disco frame that opens with the sender's key is handled   *)
(* by handleDiscoMessage under c.mu; sender is the disco key in the frame. *)
(* The pong history (recentPongs) and lastPingFrom/lastPingTime feed only  *)
(* logs and status reports.                                                *)
(***************************************************************************)
\* the checks of handleDiscoMessage; 0: the frame is dropped
DiscoReceiver(sender) ==
    IF conn.closed \/ conn.privateKey = 0 \/ ~conn.discoPrivate THEN 0
    ELSE LET ep == endpointForDiscoKey(peerMap, sender)
         IN IF ep # 0 /\ canP2P(heap[ep]) THEN ep ELSE 0

\* handlePingLocked; the pong goes out on a goroutine, by UDP when src is UDP
handlePingLocked(w, id, src, sender, t) ==
    LET w1 == setAddrToDiscoLocked(w, src, sender)
    IN [w1 EXCEPT !.hp[id] = addCandidateEndpoint(@, src, t)]

\* a faulty variant: every pong makes its address the best one
promotePongAlways(de, thisPong, t) ==
    [de EXCEPT !.bestAddr = thisPong, !.bestAddrAt = t,
               !.trustBestAddrUntil = t + trustUDPAddrDuration]

\* the end of handlePongConnLocked: "Promote this pong response to our
\* current best address if it's lower latency"
promotePong(de, thisPong, t) ==
    LET best == IF betterAddr(Duration(thisPong), Duration(de.bestAddr))
                THEN thisPong ELSE de.bestAddr
    IN IF best.ipp = thisPong.ipp
       THEN [de EXCEPT !.bestAddr = thisPong, !.bestAddrAt = t,
                       !.trustBestAddrUntil = t + trustUDPAddrDuration]
       ELSE de

\* a faulty variant: a pong that answers no ping of ours renews the best address
handlePongConnLockedAnyTx(w, id, txid, src, t) ==
    LET de == w.hp[id]
    IN IF txid \notin DOMAIN de.sentPing
       THEN [w EXCEPT !.hp[id].bestAddrAt = t,
                      !.hp[id].trustBestAddrUntil = t + trustUDPAddrDuration]
       ELSE LET w0 == [w EXCEPT !.hp[id] = removeSentPing(de, txid)]
                sp == de.sentPing[txid]
            IN IF src.ip = DerpMagicIP \/ sp.to \notin DOMAIN de.endpointState
               THEN w0
               ELSE LET w1 == setAddrToDiscoLocked(w0, src, de.discoKey)
                    IN [w1 EXCEPT !.hp[id] =
                           promotePong(@, [ipp |-> sp.to, latency |-> t - sp.at], t)]

handlePongConnLocked(w, id, txid, src, t) ==
    LET de == w.hp[id]
        isDerp == src.ip = DerpMagicIP
    IN IF txid \notin DOMAIN de.sentPing THEN w
       ELSE LET sp == de.sentPing[txid]
                latency == t - sp.at
                thisPong == [ipp |-> sp.to, latency |-> latency]
                w0 == [w EXCEPT !.hp[id] = removeSentPing(de, txid)]
            IN IF isDerp THEN w0
               ELSE IF sp.to \notin DOMAIN de.endpointState THEN w0
               ELSE LET w1 == setAddrToDiscoLocked(w0, src, de.discoKey)
                    IN [w1 EXCEPT !.hp[id] = promotePong(@, thisPong, t)]

\* a ping frame from sender arrives from src
HandleDiscoPing(sender, src) ==
    /\ MuFree
    /\ LET id == DiscoReceiver(sender)
       IN IF id = 0 THEN UNCHANGED <<conn, peerMap, heap, disco, relay, wg>>
          ELSE Commit(conn, handlePingLocked(World, id, src, sender, now),
                      disco, relay, wg)
    /\ UNCHANGED <<clock, closer, bind, locks, cmp>>

\* a pong frame from sender arrives from src.  The peer can answer only a
\* ping that was written to the network: the txid of a ping whose
\* sendDiscoPing goroutine has not run yet is unknown to it.
HandleDiscoPong(sender, txid, src) ==
    /\ MuFree
    /\ \A g \in disco.pings : g.txid # txid
    /\ LET id == DiscoReceiver(sender)
       IN IF id = 0 THEN UNCHANGED <<conn, peerMap, heap, disco, relay, wg>>
          ELSE Commit(conn, handlePongConnLocked(World, id, txid, src, now),
                      disco, relay, wg)
    /\ UNCHANGED <<clock, closer, bind, locks, cmp>>

\* a call-me-maybe frame from sender arrives over DERP region: go handleCallMeMaybe
\* handleDiscoMessage on a CallMeMaybe that came from src
HandleDiscoCallMeMaybeFrom(sender, src, eps) ==
    /\ MuFree
    /\ LET id == DiscoReceiver(sender)
       IN IF id = 0 \/ src.ip # DerpMagicIP
          THEN UNCHANGED <<conn, peerMap, heap, disco, relay, wg>>
          ELSE Commit(conn, World,
                      [disco EXCEPT !.cmm = @ \cup {[ep |-> id, eps |-> eps]}],
                      relay, wg)
    /\ UNCHANGED <<clock, closer, bind, locks, cmp>>

\* the same for a CallMeMaybe that came over the relay of the region
HandleDiscoCallMeMaybe(sender, region, eps) ==
    HandleDiscoCallMeMaybeFrom(sender, DerpAddrOf(region), eps)

\* the goroutine started by HandleDiscoCallMeMaybe: endpoint.handleCallMeMaybe
RunHandleCallMeMaybe(g) ==
    /\ g \in disco.cmm
    /\ LET r == handleCallMeMaybe(heap[g.ep], disco.nextTx, g.eps, now)
           d1 == [disco EXCEPT !.cmm = @ \ {g},
                               !.nextTx = r.tx,
                               !.pings = @ \cup StartedPings(g.ep, r.out)]
       IN /\ r.tx <= MaxTx + 1
          /\ Commit(conn, [pm |-> peerMap, hp |-> [heap EXCEPT ![g.ep] = r.de]],
                    d1, relay, wg)
    /\ UNCHANGED <<clock, closer, bind, locks, cmp>>

(***************************************************************************)
(* Goroutines and timers of an endpoint.                                   *)
(***************************************************************************)
\* endpoint.sendDiscoPing, the goroutine started by startPingLocked:
\* sendDiscoMessage, and forgetPing if nothing was sent
RunSendDiscoPing(g, werr) ==
    /\ MuFree
    /\ g \in disco.pings
    /\ LET a == IF conn.closed THEN [r |-> relay, sent |-> FALSE, err |-> "Closed"]
                ELSE sendAddr(conn, relay, g.to, heap[g.ep].publicKey, now, 0, werr)
           hp1 == IF a.sent THEN heap
                  ELSE [heap EXCEPT ![g.ep] = removeSentPing(@, g.txid)]
       IN /\ Cardinality(DOMAIN a.r.clients) <= MaxClients
          /\ Commit(conn, [pm |-> peerMap, hp |-> hp1],
                    [disco EXCEPT !.pings = @ \ {g}], a.r, wg)
    /\ UNCHANGED <<clock, closer, bind, locks, cmp>>

\* the timer of a sent ping fires: endpoint.pingTimeout
PingTimeout(id, txid) ==
    /\ id \in DOMAIN heap
    /\ txid \in DOMAIN heap[id].sentPing
    /\ now >= heap[id].sentPing[txid].at + pingTimeoutDuration
    /\ Commit(conn, [pm |-> peerMap, hp |-> [heap EXCEPT ![id] = removeSentPing(@, txid)]],
              disco, relay, wg)
    /\ UNCHANGED <<clock, closer, bind, locks, cmp>>

\* time passes until a timer of startPingLocked is due
PingDeadlines ==
    {d \in {IF txid \in DOMAIN heap[id].sentPing
               THEN heap[id].sentPing[txid].at + pingTimeoutDuration ELSE 0 :
               id \in DOMAIN heap, txid \in 1..MaxTx} : d > 0}

TimerTick ==
    /\ \E d \in PingDeadlines :
          /\ d > now
          /\ clock' = [clock EXCEPT !.now = d]
    /\ UNCHANGED <<conn, peerMap, heap, disco, relay, wg, closer, bind, locks, cmp>>

\* the heartbeat timer fires: endpoint.heartbeat
HeartbeatFire(id) ==
    /\ id \in DOMAIN heap
    /\ heap[id].heartBeatTimer # 0
    /\ now >= heap[id].heartBeatTimer
    /\ LET r == heartbeat(heap[id], disco.nextTx, now)
           d1 == [disco EXCEPT
                    !.nextTx = r.tx,
                    !.pings = @ \cup StartedPings(id, r.out),
                    !.wantCMM = IF r.wantCMM
                                THEN @ \cup {[ep |-> id, derpAddr |-> r.de.derpAddr]}
                                ELSE @]
       IN /\ r.tx <= MaxTx + 1
          /\ Commit(conn, [pm |-> peerMap, hp |-> [heap EXCEPT ![id] = r.de]],
                    d1, relay, wg)
    /\ UNCHANGED <<clock, closer, bind, locks, cmp>>

(***************************************************************************)
(* The heartbeat timer in two steps.  time.AfterFunc runs de.heartbeat in  *)
(* its own goroutine when the timer expires; the goroutine then waits for  *)
(* de.mu.  disco.beats holds the callbacks that were started and have not  *)
(* taken de.mu yet, each with the deadline of its timer.  de.heartBeatTimer *)
(* keeps pointing at an expired timer until somebody overwrites it; a      *)
(* timer that is overwritten without Stop stays pending: disco.orphans.    *)
(***************************************************************************)
BeatOf(id, timer, orphan) == [ep |-> id, timer |-> timer, orphan |-> orphan]

\* the timer de.heartBeatTimer of endpoint id points at has expired and its
\* callback has not run yet
Fired(d, hp, id) ==
    /\ hp[id].heartBeatTimer # 0
    /\ BagIn(BeatOf(id, hp[id].heartBeatTimer, FALSE), d.beats)

\* the timer de.heartBeatTimer points at expires
HeartbeatExpire(id) ==
    /\ id \in DOMAIN heap
    /\ heap[id].heartBeatTimer # 0
    /\ now >= heap[id].heartBeatTimer
    /\ ~Fired(disco, heap, id)
    /\ disco' = [disco EXCEPT !.beats =
                    @ (+) SetToBag({BeatOf(id, heap[id].heartBeatTimer, FALSE)})]
    /\ UNCHANGED <<clock, conn, peerMap, heap, relay, wg, closer, bind, locks, cmp>>

\* a pending timer that de.heartBeatTimer no longer points at expires
OrphanExpire(g) ==
    /\ BagIn(g, disco.orphans)
    /\ now >= g.timer
    /\ disco' = [disco EXCEPT !.orphans = @ (-) SetToBag({g}),
                              !.beats = @ (+) SetToBag({BeatOf(g.ep, g.timer, TRUE)})]
    /\ UNCHANGED <<clock, conn, peerMap, heap, relay, wg, closer, bind, locks, cmp>>

\* the callback g takes de.mu: endpoint.heartbeat.  Its first assignment,
\* de.heartBeatTimer = nil, drops the timer the field points at without
\* stopping it.
HeartbeatRun(g) ==
    /\ BagIn(g, disco.beats)
    /\ LET id == g.ep
           de == heap[id]
           lost == IF de.heartBeatTimer # 0 /\ ~Fired(disco, heap, id)
                   THEN SetToBag({BeatOf(id, de.heartBeatTimer, TRUE)})
                   ELSE EmptyBag
           r == heartbeat(de, disco.nextTx, now)
           d1 == [disco EXCEPT
                    !.nextTx = r.tx,
                    !.pings = @ \cup StartedPings(id, r.out),
                    !.wantCMM = IF r.wantCMM
                                THEN @ \cup {[ep |-> id, derpAddr |-> r.de.derpAddr]}
                                ELSE @,
                    !.beats = @ (-) SetToBag({g}),
                    !.orphans = @ (+) lost]
       IN /\ r.tx <= MaxTx + 1
          /\ Commit(conn, [pm |-> peerMap, hp |-> [heap EXCEPT ![id] = r.de]],
                    d1, relay, wg)
    /\ UNCHANGED <<clock, closer, bind, locks, cmp>>

\* Conn.enqueueCallMeMaybe, the goroutine started by sendPingsLocked
\* a faulty variant: the CallMeMaybe is sent however old the endpoints are
EnqueueCallMeMaybeStale(g) ==
    /\ MuFree
    /\ g \in disco.wantCMM
    /\ Commit(conn, World,
              [disco EXCEPT !.wantCMM = @ \ {g}, !.cmmOut = @ \cup {g}],
              relay, wg)
    /\ UNCHANGED <<clock, closer, bind, locks, cmp>>

\* Conn.enqueueCallMeMaybe; lastEndpointsTime = 0 is the zero time, which is
\* before every time
EnqueueCallMeMaybe(g) ==
    /\ MuFree
    /\ g \in disco.wantCMM
    /\ IF \/ conn.lastEndpointsTime = 0
          \/ ~(conn.lastEndpointsTime > now - endpointsFreshEnoughDuration)
       THEN Commit([conn EXCEPT !.onEndpointRefreshed =
                       {x \in @ : x.ep # g.ep} \cup {g}],
                   World,
                   [disco EXCEPT !.wantCMM = @ \ {g},
                                 !.restun = @ \cup {"refresh-for-peering"}],
                   relay, wg)
       ELSE Commit(conn, World,
                   [disco EXCEPT !.wantCMM = @ \ {g}, !.cmmOut = @ \cup {g}],
                   relay, wg)
    /\ UNCHANGED <<clock, closer, bind, locks, cmp>>

\* Conn.Rebind: the sockets are bound anew, the DERP clients closed, the
\* home connection restarted, and every peer's trust in its path withdrawn
Rebind ==
    /\ MuFree
    /\ Commit([conn EXCEPT !.pconn4 = "open", !.pconn6 = "open"],
              [pm |-> peerMap,
               hp |-> forEachDiscoEndpoint(peerMap, heap, "noteConnectivityChange")],
              disco,
              IF conn.privateKey # 0
              THEN goDerpConnect(closeAllDerpLocked(relay), conn.myDerp)
              ELSE closeAllDerpLocked(relay),
              wg)
    /\ UNCHANGED <<clock, closer, bind, locks, cmp>>

(***************************************************************************)
(* The goroutines of the DERP clients.                                     *)
(***************************************************************************)
\* muCond.Broadcast: a Close parked in muCond.Wait becomes runnable
Broadcast(cl) == IF cl.pc = "waiting" THEN [cl EXCEPT !.pc = "woken"] ELSE cl

\* `go c.derpWriteChanOfAddr(home, key.Public{})`, started by goDerpConnect
GoDerpConnectUpTo(region, max) ==
    /\ MuFree
    /\ region \in relay.goConnect
    /\ LET d == derpWriteChanOfAddr(conn, [relay EXCEPT !.goConnect = @ \ {region}],
                                    DerpAddrOf(region), 0, now)
       IN /\ Cardinality(DOMAIN d.r.clients) <= max
          /\ Commit(conn, World, disco, d.r, wg)
    /\ UNCHANGED <<clock, closer, bind, locks, cmp>>

GoDerpConnect(region) == GoDerpConnectUpTo(region, MaxClients)

\* the goroutine of the first client: dc.Connect(ctx) returns, close(c.derpStarted)
ConnectReturn ==
    /\ relay.connect = "connecting"
    /\ relay' = [relay EXCEPT !.derpStarted = TRUE, !.connect = "started"]
    /\ UNCHANGED <<clock, conn, peerMap, heap, disco, wg, closer, bind, locks, cmp>>

\* ... and then c.muCond.Broadcast(), without c.mu
ConnectBroadcast ==
    /\ relay.connect = "started"
    /\ relay' = [relay EXCEPT !.connect = "done"]
    /\ closer' = Broadcast(closer)
    /\ UNCHANGED <<clock, conn, peerMap, heap, disco, wg, bind, locks, cmp>>

\* runDerpWriter past its start gate takes a request and writes it to the server
DerpWriterForward(id) ==
    /\ id \in DOMAIN relay.clients
    /\ ~relay.clients[id].writerDone
    /\ GateOpen(relay, id)
    /\ relay.clients[id].writeCh # <<>>
    /\ relay' = [relay EXCEPT !.forwarded = Head(relay.clients[id].writeCh),
                              !.clients[id].writeCh = Tail(@)]
    /\ UNCHANGED <<clock, conn, peerMap, heap, disco, wg, closer, bind, locks, cmp>>

\* runDerpWriter sees ctx.Done and returns; its channel becomes garbage
DerpWriterExit(id) ==
    /\ id \in DOMAIN relay.clients
    /\ ~relay.clients[id].writerDone
    /\ relay.clients[id].ctxDone
    /\ relay' = [relay EXCEPT !.clients[id].writerDone = TRUE,
                              !.clients[id].writeCh = <<>>]
    /\ UNCHANGED <<clock, conn, peerMap, heap, disco, wg, closer, bind, locks, cmp>>

\* removeDerpPeerRoute: deletes the entry of peer if it is {derpID, dc}
removeDerpPeerRoute(r, peer, derpID, dc) ==
    IF peer \in DOMAIN r.derpRoute /\ r.derpRoute[peer] = [derpID |-> derpID, dc |-> dc]
    THEN [r EXCEPT !.derpRoute = MapDelete(@, peer)]
    ELSE r

\* addDerpPeerRoute
addDerpPeerRoute(r, peer, derpID, dc) ==
    [r EXCEPT !.derpRoute = MapPut(@, peer, [derpID |-> derpID, dc |-> dc])]

\* "Forget that all these peers have routes": the loop over peerPresent
RECURSIVE forgetRoutes(_, _, _)
forgetRoutes(r, id, peers) ==
    IF peers = {} THEN [r EXCEPT !.clients[id].peerPresent = {}]
    ELSE LET peer == CHOOSE x \in peers : TRUE
         IN forgetRoutes(removeDerpPeerRoute(r, peer, r.clients[id].region, id),
                         id, peers \ {peer})

\* where runDerpReader is: before its start gate, in dc.RecvDetail, offering
\* its packet on derpRecvCh, or waiting for didCopy
ReaderAt(id) ==
    IF bind.reader = id THEN "didCopy"
    ELSE IF relay.clients[id].pkt # 0 THEN "offer"
    ELSE IF GateOpen(relay, id) THEN "recv"
    ELSE "gate"

\* the goroutine of `go ad.c.Close()` runs: the connection is closed
DerpClientClose(id) ==
    /\ id \in DOMAIN relay.clients
    /\ relay.clients[id].dc = "closing"
    /\ relay' = [relay EXCEPT !.clients[id].dc = "closed"]
    /\ UNCHANGED <<clock, conn, peerMap, heap, disco, wg, closer, bind, locks, cmp>>

\* runDerpReader returns after its client was closed: in RecvDetail it gets
\* the error of the closed client and forgets its routes first; at its
\* start gate, offering its packet or waiting for didCopy it sees ctx.Done.
\* Its deferred dc.Close() closes the connection if it is still open.
DerpReaderExit(id) ==
    /\ id \in DOMAIN relay.clients
    /\ ~relay.clients[id].readerDone
    /\ relay.clients[id].ctxDone
    /\ LET r1 == [relay EXCEPT !.clients[id].readerDone = TRUE,
                               !.clients[id].pkt = 0,
                               !.clients[id].dc = "closed"]
       IN IF ReaderAt(id) = "recv" /\ relay.clients[id].peerPresent # {}
          THEN /\ MuFree
               /\ relay' = forgetRoutes(r1, id, relay.clients[id].peerPresent)
          ELSE relay' = r1
    /\ bind' = IF bind.reader = id THEN [bind EXCEPT !.reader = 0] ELSE bind
    /\ UNCHANGED <<clock, conn, peerMap, heap, disco, wg, closer, locks, cmp>>

\* dc.RecvDetail returns a packet of peer src: a new sender gets a route.
\* (A client that was closed returns its error instead: DerpReaderExit.)
DerpReaderRecv(id, src) ==
    /\ id \in DOMAIN relay.clients
    /\ ~relay.clients[id].readerDone
    /\ ~relay.clients[id].ctxDone
    /\ ReaderAt(id) = "recv"
    /\ IF src \in relay.clients[id].peerPresent
       THEN relay' = [relay EXCEPT !.clients[id].pkt = src]
       ELSE /\ MuFree
            /\ relay' = addDerpPeerRoute(
                            [relay EXCEPT !.clients[id].pkt = src,
                                          !.clients[id].peerPresent = @ \cup {src}],
                            src, relay.clients[id].region, id)
    /\ UNCHANGED <<clock, conn, peerMap, heap, disco, wg, closer, bind, locks, cmp>>

\* dc.RecvDetail returns an error on a client that was not closed (the
\* connection broke): the routes are forgotten; then the reader returns if
\* the network is down, and else asks for a re-STUN and tries again
DerpReaderRecvError(id) ==
    /\ MuFree
    /\ id \in DOMAIN relay.clients
    /\ ~relay.clients[id].readerDone
    /\ ~relay.clients[id].ctxDone
    /\ ReaderAt(id) = "recv"
    /\ LET r1 == forgetRoutes(relay, id, relay.clients[id].peerPresent)
       IN IF ~conn.networkUp
          THEN /\ relay' = [r1 EXCEPT !.clients[id].readerDone = TRUE,
                                       !.clients[id].dc = "closed"]
               /\ UNCHANGED conn
          ELSE /\ relay' = r1
               /\ conn' = reSTUN(conn)
    /\ UNCHANGED <<clock, peerMap, heap, disco, wg, closer, bind, locks, cmp>>

\* runDerpReader hands its packet over on the unbuffered derpRecvCh to a
\* receiveDERP that is receiving, and waits for didCopy
DerpReaderOffer(id) ==
    /\ id \in DOMAIN relay.clients
    /\ ~relay.clients[id].readerDone
    /\ ReaderAt(id) = "offer"
    /\ bind.reader = 0
    /\ bind.derpPc = "recv"
    /\ bind' = [bind EXCEPT !.derpPc = "got", !.reader = id]
    /\ relay' = [relay EXCEPT !.clients[id].pkt = 0]
    /\ UNCHANGED <<clock, conn, peerMap, heap, disco, wg, closer, locks, cmp>>

\* the cleanup timer fires: cleanStaleDerp
CleanStaleDerp ==
    /\ MuFree
    /\ relay.cleanup.at # 0
    /\ now >= relay.cleanup.at
    /\ Commit(conn, World, disco, cleanStaleDerp(conn, relay, now), wg)
    /\ UNCHANGED <<clock, closer, bind, locks, cmp>>

(***************************************************************************)
(* The endpoint updater: ReSTUN, updateEndpoints (determineEndpoints with  *)
(* updateNetInfo and setNearestDERP, then setEndpoints) and its            *)
(* deferred function.  The periodic re-STUN timer it leaves behind is one  *)
(* more caller of ReSTUN.                                                  *)
(***************************************************************************)
\* a faulty variant: starts an updater whether or not one is active
ReSTUNAlwaysStart ==
    /\ MuFree
    /\ IF conn.closed \/ (conn.privateKey = 0 /\ conn.everHadKey)
       THEN UNCHANGED conn
       ELSE conn' = [conn EXCEPT !.endpointsUpdateActive = TRUE,
                                 !.goUpdateEndpoints = "running",
                                 !.updaters = @ + 1]
    /\ UNCHANGED <<clock, peerMap, heap, disco, relay, wg, closer, bind, locks, cmp>>

ReSTUN ==
    /\ MuFree
    /\ conn' = reSTUN(conn)
    /\ UNCHANGED <<clock, peerMap, heap, disco, relay, wg, closer, bind, locks, cmp>>

\* report: what netcheck found (err: no report; IPv4, IPv6; home: the
\* preferred region or the fallback picked); anySTUN: a STUN endpoint found
\* `go c.ReSTUN("refresh-for-peering")` of enqueueCallMeMaybe gets to run
GoReSTUN ==
    /\ MuFree
    /\ disco.restun # {}
    /\ conn' = reSTUN(conn)
    /\ disco' = [disco EXCEPT !.restun = {}]
    /\ UNCHANGED <<clock, peerMap, heap, relay, wg, closer, bind, locks, cmp>>

\* tailcfg.Endpoint values
StunEndpoint == [Addr |-> Addr4, Type |-> "stun"]
LocalEndpoint == [Addr |-> Addr4, Type |-> "local"]

\* a faulty variant: two lists are equal only in the same order
endpointSetsEqualOrdered(x, y) == x = y

endpointSetsEqual(x, y) ==
    LET orderMatches == Len(x) = Len(y) /\ \A i \in 1..Len(x) : x[i] = y[i]
        m == [v \in Range(x) \cup Range(y) |->
                 (IF v \in Range(x) THEN 1 ELSE 0) + (IF v \in Range(y) THEN 2 ELSE 0)]
    IN orderMatches \/ \A v \in DOMAIN m : m[v] = 3

\* epFunc(endpoints): the upper layer keeps the list; calls is 0 before the
\* first call and then goes between 1 and 2
epFunc(u, endpoints) ==
    [u EXCEPT !.ep = [calls |-> IF @.calls = 1 THEN 2 ELSE 1, last |-> endpoints]]

\* updateEndpoints up to its deferred function, for the report of the
\* netcheck and the list determineEndpoints returns
\* pickDERPFallback: the regions it may return.  With no home yet it picks
\* among the regions by a hash of the Conn's address and the start time.
pickDERPFallback(c) ==
    IF c.derpMap.nil \/ c.derpMap.Regions = {} THEN {0}
    ELSE IF c.myDerp # 0 THEN {c.myDerp}
    ELSE c.derpMap.Regions

UpdateEndpointsWith(report, endpoints) ==
    /\ MuFree
    /\ conn.goUpdateEndpoints = "running"
    /\ \E fallback \in pickDERPFallback(conn) :
       LET anySTUN == \E i \in 1..Len(endpoints) : endpoints[i].Type = "stun"
           skip == conn.derpMap.nil \/ ~conn.networkUp
           home == IF conn.derpMap.nil THEN 0
                   ELSE IF report.home = 0 THEN fallback ELSE report.home
           c1 == IF skip \/ report.err THEN conn
                 ELSE [conn EXCEPT !.noV4 = ~report.IPv4, !.noV6 = ~report.IPv6,
                                   !.myDerp = home]
           r1 == IF skip \/ report.err \/ home = conn.myDerp \/ conn.privateKey = 0
                 THEN relay ELSE goDerpConnect(relay, home)
           store == ~report.err /\ ~(~anySTUN /\ c1.derpMap.nil)
           changed == store /\ ~endpointSetsEqual(endpoints, c1.lastEndpoints)
           c2 == IF store
                 THEN [c1 EXCEPT !.lastEndpointsTime = now, !.onEndpointRefreshed = {},
                                 !.lastEndpoints = IF changed THEN endpoints ELSE @]
                 ELSE c1
           d1 == IF store
                 THEN [disco EXCEPT !.wantCMM = @ \cup conn.onEndpointRefreshed]
                 ELSE disco
       IN Commit([c2 EXCEPT !.goUpdateEndpoints = "finishing"], World, d1, r1,
                 IF changed THEN epFunc(wg, endpoints) ELSE wg)
    /\ UNCHANGED <<clock, closer, bind, locks, cmp>>

\* the same for a list of one endpoint, found by STUN or not
UpdateEndpointsRun(report, anySTUN) ==
    UpdateEndpointsWith(report, IF anySTUN THEN <<StunEndpoint>> ELSE <<LocalEndpoint>>)

\* the deferred function of updateEndpoints: the goroutine starts its
\* follow-up, or clears the flag, and returns
UpdateEndpointsFinish ==
    /\ MuFree
    /\ conn.goUpdateEndpoints = "finishing"
    /\ IF ~conn.closed /\ conn.wantEndpointsUpdate
       THEN /\ conn' = [conn EXCEPT !.wantEndpointsUpdate = FALSE,
                                    !.goUpdateEndpoints = "running"]
            /\ UNCHANGED closer
       ELSE /\ conn' = [conn EXCEPT !.wantEndpointsUpdate = FALSE,
                                    !.endpointsUpdateActive = FALSE,
                                    !.goUpdateEndpoints = "none",
                                    !.updaters = @ - 1]
            /\ closer' = Broadcast(closer)
    /\ UNCHANGED <<clock, peerMap, heap, disco, relay, wg, bind, locks, cmp>>

(***************************************************************************)
(* Conn.Close.                                                             *)
(***************************************************************************)
goroutinesRunningLocked(c, r) ==
    IF c.endpointsUpdateActive THEN TRUE
    ELSE r.made /\ ~r.derpStarted

\* Close up to the first evaluation of its loop condition
CloseBegin ==
    /\ MuFree
    /\ closer.pc = "idle"
    /\ LET c1 == [conn EXCEPT !.closed = TRUE, !.pconn4 = "closed", !.pconn6 = "closed"]
           r1 == closeAllDerpLocked(IF relay.cleanup.armed
                                    THEN [relay EXCEPT !.cleanup.at = 0] ELSE relay)
       IN /\ Commit(c1, [pm |-> peerMap,
                         hp |-> forEachDiscoEndpoint(peerMap, heap, "stopAndReset")],
                    disco, r1, wg)
          /\ closer' = [closer EXCEPT !.pc = IF goroutinesRunningLocked(c1, r1)
                                              THEN "checked" ELSE "done"]
    /\ UNCHANGED <<clock, bind, locks, cmp>>

\* c.muCond.Wait(): Close joins the waiters and releases c.mu
CloseWait ==
    /\ closer.pc = "checked"
    /\ closer' = [closer EXCEPT !.pc = "waiting"]
    /\ UNCHANGED <<clock, conn, peerMap, heap, disco, relay, wg, bind, locks, cmp>>

\* Close, woken, holds c.mu again and evaluates the loop condition
CloseRecheck ==
    /\ closer.pc = "woken"
    /\ closer' = [closer EXCEPT !.pc = IF goroutinesRunningLocked(conn, relay)
                                        THEN "checked" ELSE "done"]
    /\ UNCHANGED <<clock, conn, peerMap, heap, disco, relay, wg, bind, locks, cmp>>

(***************************************************************************)
(* connBind and the three receive functions wireguard-go runs, each in a   *)
(* goroutine of its own that calls it again after every packet and stops   *)
(* at the first error.                                                     *)
(*   bind.closed   connBind.closed                                         *)
(*   bind.mu       who holds connBind.mu: "free", "close"                  *)
(*   bind.closePc  connBind.Close: "idle", "sending" (blocked in the send  *)
(*                 on derpRecvCh, holding connBind.mu), "done"             *)
(*   bind.derpPc   receiveDERP: "idle" (not running), "recv" (receiving on *)
(*                 derpRecvCh), "got" (took the result of a reader, next is *)
(*                 c.Closed()), "gotEmpty" (took the empty result of       *)
(*                 Close), "processing" (returned a packet, wireguard-go   *)
(*                 handles it), "closedErr" (returned net.ErrClosed)       *)
(*   bind.reader   the DERP reader waiting for didCopy, 0 if none          *)
(*   bind.recv4/6  receiveIPv4/6: "idle", "reading", "closedErr"           *)
(***************************************************************************)
ReceiversStopped ==
    /\ bind.derpPc \in {"idle", "closedErr"}
    /\ bind.recv4 \in {"idle", "closedErr"}
    /\ bind.recv6 \in {"idle", "closedErr"}

\* connBind.Open, and wireguard-go starting a goroutine per receive function
\* (it has waited for those of the previous Open to stop)
BindOpen ==
    /\ bind.mu = "free"
    /\ bind.closed
    /\ ReceiversStopped
    /\ bind' = [bind EXCEPT !.closed = FALSE, !.closePc = "idle", !.derpPc = "recv",
                            !.recv4 = "reading", !.recv6 = "reading"]
    /\ UNCHANGED <<clock, conn, peerMap, heap, disco, relay, wg, closer, locks, cmp>>

\* connBind.Close up to its send on derpRecvCh; connBind.mu stays locked
BindCloseBegin ==
    /\ bind.mu = "free"
    /\ bind.closePc = "idle"
    /\ ~bind.closed
    /\ bind' = [bind EXCEPT !.closed = TRUE, !.mu = "close", !.closePc = "sending"]
    /\ conn' = [conn EXCEPT !.pconn4 = "closed", !.pconn6 = "closed"]
    /\ UNCHANGED <<clock, peerMap, heap, disco, relay, wg, closer, locks, cmp>>

\* the send of the empty read result meets a receiveDERP that is receiving;
\* Close returns and its deferred Unlock runs
BindCloseSend ==
    /\ bind.closePc = "sending"
    /\ bind.derpPc = "recv"
    /\ bind' = [bind EXCEPT !.mu = "free", !.closePc = "done", !.derpPc = "gotEmpty"]
    /\ UNCHANGED <<clock, conn, peerMap, heap, disco, relay, wg, closer, locks, cmp>>

\* receiveDERP after a receive: c.Closed() under connBind.mu, then break or
\* processDERPReadResult (an empty result reads nothing: the loop continues)
ReceiveDERPCheck ==
    /\ bind.derpPc \in {"got", "gotEmpty"}
    /\ bind.mu = "free"
    /\ bind' = IF bind.closed THEN [bind EXCEPT !.derpPc = "closedErr"]
               ELSE IF bind.derpPc = "gotEmpty" THEN [bind EXCEPT !.derpPc = "recv"]
               ELSE [bind EXCEPT !.derpPc = "processing", !.reader = 0]
    /\ UNCHANGED <<clock, conn, peerMap, heap, disco, relay, wg, closer, locks, cmp>>

\* wireguard-go has handled the packet and calls receiveDERP again
ReceiveDERPAgain ==
    /\ bind.derpPc = "processing"
    /\ bind' = [bind EXCEPT !.derpPc = "recv"]
    /\ UNCHANGED <<clock, conn, peerMap, heap, disco, relay, wg, closer, locks, cmp>>

\* receiveIPv4: ReadFromNetaddr fails once the socket is closed
ReceiveIPv4 ==
    /\ bind.recv4 = "reading"
    /\ conn.pconn4 = "closed"
    /\ bind' = [bind EXCEPT !.recv4 = "closedErr"]
    /\ UNCHANGED <<clock, conn, peerMap, heap, disco, relay, wg, closer, locks, cmp>>

\* receiveIPv6
ReceiveIPv6 ==
    /\ bind.recv6 = "reading"
    /\ conn.pconn6 = "closed"
    /\ bind' = [bind EXCEPT !.recv6 = "closedErr"]
    /\ UNCHANGED <<clock, conn, peerMap, heap, disco, relay, wg, closer, locks, cmp>>

\* cache.ipp == ipp && cache.de != nil && cache.gen == cache.de.numStopAndReset()
cacheHit(hp, cache, r, ipp) ==
    /\ cache.ipp = ipp
    /\ cache.de # 0
    /\ cache.de \in DOMAIN hp
    /\ r \in hp[cache.de].cachedBy

\* the endpoint receiveIP returns for a WireGuard packet from ipp, 0 if it
\* drops the packet
receiveIP(c, pm, hp, cache, r, ipp) ==
    IF c.privateKey = 0 THEN 0
    ELSE IF cacheHit(hp, cache, r, ipp) THEN cache.de
    ELSE endpointForIPPort(pm, ipp)

\* cache.ipp = ipp; cache.de = de; cache.gen = de.numStopAndReset()
fillCache(hp, cache, r, de) ==
    [id \in DOMAIN hp |->
        IF id = de THEN [hp[id] EXCEPT !.cachedBy = @ \cup {r}]
        ELSE IF id = cache.de THEN [hp[id] EXCEPT !.cachedBy = @ \ {r}]
        ELSE hp[id]]

\* receiveIP for a WireGuard packet from ipp, up to noteRecvActivity's load
\* of lastRecv
ReceiveIP(r, ipp) ==
    /\ bind.note[r].ep = 0
    /\ LET cache == bind.cache[r]
           ep == receiveIP(conn, peerMap, heap, cache, r, ipp)
           hit == conn.privateKey # 0 /\ cacheHit(heap, cache, r, ipp)
       IN /\ hit \/ conn.privateKey = 0 \/ MuFree
          /\ IF ep = 0 THEN UNCHANGED <<bind, heap>>
             ELSE /\ bind' = [bind EXCEPT !.note[r] = [ep |-> ep, now |-> now,
                                                      saw |-> heap[ep].lastRecv],
                                          !.cache[r] = [ipp |-> ipp, de |-> ep]]
                  /\ heap' = IF hit THEN heap ELSE fillCache(heap, cache, r, ep)
    /\ UNCHANGED <<clock, conn, peerMap, disco, relay, wg, closer, locks, cmp>>

\* processDERPReadResult for a WireGuard packet that came from node key src
\* over a relay, up to noteRecvActivity's load of lastRecv
ProcessDERPReadResult(src) ==
    /\ MuFree
    /\ bind.note["derp"].ep = 0
    /\ LET ep == endpointForNodeKey(peerMap, src)
       IN bind' = IF ep = 0 THEN bind
                  ELSE [bind EXCEPT !.note["derp"] = [ep |-> ep, now |-> now,
                                                      saw |-> heap[ep].lastRecv]]
    /\ UNCHANGED <<clock, conn, peerMap, heap, disco, relay, wg, closer, locks, cmp>>

\* receiveDERP has taken a packet of node key src from a reader and is not
\* closed: processDERPReadResult up to noteRecvActivity's load of lastRecv;
\* receiveDERP then returns the packet, or receives again if n is 0
ReceiveDERPProcess(src) ==
    /\ MuFree
    /\ bind.derpPc = "processing"
    /\ bind.note["derp"].ep = 0
    /\ LET ep == endpointForNodeKey(peerMap, src)
       IN bind' = IF ep = 0 THEN [bind EXCEPT !.derpPc = "recv"]
                  ELSE [bind EXCEPT !.derpPc = "recv",
                                    !.note["derp"] = [ep |-> ep, now |-> now,
                                                      saw |-> heap[ep].lastRecv]]
    /\ UNCHANGED <<clock, conn, peerMap, heap, disco, relay, wg, closer, locks, cmp>>

\* the rest of noteRecvActivity in receiver r: the comparison, and the store
\* and the callback when more than ten seconds have elapsed
NoteRecvActivity(r) ==
    /\ bind.note[r].ep # 0
    /\ Len(wg.noted) < MaxNotes
    /\ LET n == bind.note[r]
       IN IF n.now - n.saw > recvActivityInterval
          THEN /\ heap' = [heap EXCEPT ![n.ep].lastRecv = n.now]
               /\ wg' = [wg EXCEPT !.noted =
                             Append(@, [key |-> heap[n.ep].publicKey, at |-> now])]
          ELSE UNCHANGED <<heap, wg>>
    /\ bind' = [bind EXCEPT !.note[r] = NotNoting]
    /\ UNCHANGED <<clock, conn, peerMap, disco, relay, closer, locks, cmp>>

\* the mutexes goroutine t holds after n calls of its sequence
HeldAfter(t, n) ==
    {m \in PeerMus \cup {ConnMu} :
        \E i \in 1..n :
            /\ LockScript(t)[i] = Lock(m)
            /\ \A j \in (i + 1)..n : LockScript(t)[j] # Unlock(m)}

Held(t) == HeldAfter(t, locks[t])

\* the call goroutine t makes next
NextCall(t) == LockScript(t)[locks[t] + 1]

\* t is about to lock a mutex that some goroutine holds
Blocked(t) ==
    /\ NextCall(t).op = "Lock"
    /\ \E u \in LockTasks : NextCall(t).mu \in Held(u)

\* goroutine t makes its next call; Lock waits until the mutex is free
LockStep(t) ==
    /\ ~Blocked(t)
    /\ locks' = [locks EXCEPT ![t] = (@ + 1) % Len(LockScript(t))]
    /\ UNCHANGED <<clock, conn, peerMap, heap, disco, relay, wg, closer, bind, cmp>>

(***************************************************************************)
(* Spec: one disco-capable peer (node key 1, disco key 1) whose paths are  *)
(* explored: network maps that add it and change its endpoints, pongs and  *)
(* call-me-maybe frames from it, sends to it, a rebind, timers and the     *)
(* clock.  The DERP goroutines and the endpoint update do not run here.    *)
(***************************************************************************)
TickSizes == {5001}
PathNetMaps ==
    {<<Node(1, 1, DerpAddrOf(1), <<Addr4>>)>>,
     <<Node(1, 1, DerpAddrOf(1), <<Addr4, Addr6>>)>>}

Next ==
    \/ SetPrivateKey(1)
    \/ DiscoPublicKey
    \/ SetDERPMap(DerpMapOf({1}))
    \/ \E nm \in PathNetMaps : SetNetworkMap(nm)
    \/ ParseEndpoint(1)
    \/ \E werr \in BOOLEAN : SendNext(MaxPathSends, werr)
    \/ \E d \in TickSizes : Tick(d)
    \/ \E txid \in 1..MaxTx : HandleDiscoPong(1, txid, Addr4)
    \/ \E eps \in {{Addr6}, {}} : HandleDiscoCallMeMaybe(1, 1, eps)
    \/ \E g \in disco.cmm : RunHandleCallMeMaybe(g)
    \/ \E g \in disco.wantCMM : EnqueueCallMeMaybe(g)
    \/ \E g \in disco.pings, werr \in BOOLEAN : RunSendDiscoPing(g, werr)
    \/ \E id \in DOMAIN heap, txid \in 1..MaxTx : PingTimeout(id, txid)
    \/ \E id \in DOMAIN heap : HeartbeatFire(id)
    \/ Rebind

Spec == Init /\ [][Next]_vars

(***************************************************************************)
(* Properties of the paths of a peer and of sending (Spec).                *)
(***************************************************************************)
\* a step in which Conn.Send ran and got past the network-down check
SendStep == wg'.res.b # wg.res.b /\ wg'.res.err # "NetworkDown"

BestAddrHasState ==
    \A id \in DOMAIN heap :
        ~IsZeroIPPort(heap[id].bestAddr.ipp)
            => heap[id].bestAddr.ipp \in DOMAIN heap[id].endpointState

PongNeverResurrects ==
    (\E txid \in 1..MaxTx : HandleDiscoPong(1, txid, Addr4))
        => \A id \in DOMAIN heap \cap DOMAIN heap' :
              /\ DOMAIN heap'[id].endpointState \subseteq DOMAIN heap[id].endpointState
              /\ heap'[id].bestAddr.ipp \in
                     DOMAIN heap[id].endpointState \cup {ZeroIPPort}

\* C2: whenever an endpoint has a best address, that address has an entry in
\* its endpointState map; and a pong never brings back a path whose state
\* was deleted: it adds no entry and promotes no address without one.
C2_BestAddrTracked == []BestAddrHasState /\ [][PongNeverResurrects]_vars

\* C2 witness: an endpoint has a best address and has deleted the state of a
\* path while a ping to that path is still awaiting its pong.
C2_Witness ==
    \E id \in DOMAIN heap :
        /\ ~IsZeroIPPort(heap[id].bestAddr.ipp)
        /\ \E txid \in DOMAIN heap[id].sentPing :
              /\ heap[id].sentPing[txid].to \notin DOMAIN heap[id].endpointState
              /\ \A g \in disco.pings : g.txid # txid

SendDestinations ==
    SendStep =>
        LET de == heap[wg.handle]
            res == wg'.res
        IN /\ IsZeroIPPort(de.bestAddr.ipp)
                => /\ IsZeroIPPort(res.udpTo) /\ ~res.udpSent
                   /\ res.derpTo = de.derpAddr
           /\ (~IsZeroIPPort(de.bestAddr.ipp) /\ now <= de.trustBestAddrUntil)
                => /\ res.udpTo = de.bestAddr.ipp
                   /\ IsZeroIPPort(res.derpTo) /\ ~res.derpSent

\* C3: a send to a peer without a best path goes to the relay address only
\* and writes no UDP; a send to a peer whose best path is still trusted goes
\* to the UDP address of the best path only and not to the relay.
C3_SingleDestination == [][SendDestinations]_vars

\* C3 witness: the last send went out by UDP to a trusted best path, with no
\* relay destination.
C3_Witness ==
    /\ wg.res.udpSent /\ ~IsZeroIPPort(wg.res.udpTo)
    /\ IsZeroIPPort(wg.res.derpTo)

TrustWithdrawn ==
    Rebind => \A id \in Range(peerMap.byNodeKey) : heap'[id].trustBestAddrUntil = 0

DualSendOnExpiry ==
    SendStep =>
        LET de == heap[wg.handle]
            res == wg'.res
        IN (~IsZeroIPPort(de.bestAddr.ipp) /\ ~IsZeroIPPort(de.derpAddr)
            /\ now > de.trustBestAddrUntil)
             => /\ res.probe /\ heap'[wg.handle].lastFullPing = now
                /\ res.udpTo = de.bestAddr.ipp
                /\ res.derpTo = de.derpAddr

\* C4: a connectivity change zeroes the trust of every peer's best path; and
\* once the trust has expired or was zeroed, the next send to a peer that
\* has a relay address starts a full probe and is written both to the best
\* path and to the relay.
C4_ExpiredTrustSendsBoth == [][TrustWithdrawn /\ DualSendOnExpiry]_vars

\* C4 witness: the last send started a probe and went out on both the best
\* path and the relay.
C4_Witness ==
    /\ wg.res.probe /\ wg.res.udpSent /\ wg.res.derpSent
    /\ ~IsZeroIPPort(wg.res.udpTo) /\ ~IsZeroIPPort(wg.res.derpTo)

\* C7: a send written to both the best path and the relay returns nil when
\* at least one of the two writes went out; it returns an error only when
\* neither did.
C7_DualSendResult ==
    (~IsZeroIPPort(wg.res.udpTo) /\ ~IsZeroIPPort(wg.res.derpTo))
        => ((wg.res.udpSent \/ wg.res.derpSent) => wg.res.err = "nil")

\* C7 witness: a dual send whose UDP write failed and whose relay write was
\* queued returned nil.
C7_Witness ==
    /\ ~IsZeroIPPort(wg.res.udpTo) /\ ~IsZeroIPPort(wg.res.derpTo)
    /\ wg.res.udpErr /\ wg.res.derpSent /\ wg.res.err = "nil"

(***************************************************************************)
(* SpecIndex: two node keys and two disco keys; network maps that add and  *)
(* remove the peers, move a disco key to another node key and change the   *)
(* disco key of a node; pings from both disco keys and from two source     *)
(* addresses (a pong updates the indexes by the same setAddrToDiscoLocked).*)
(* The clock stands still and nothing is sent.                             *)
(***************************************************************************)
IndexSources == {Addr4, Addr6}
IndexNode(key, discoKey) == Node(key, discoKey, ZeroIPPort, <<Addr4>>)
IndexNetMaps ==
    {<<>>,
     <<IndexNode(1, 1)>>,
     <<IndexNode(1, 1), IndexNode(2, 2)>>,
     <<IndexNode(2, 1)>>,
     <<IndexNode(1, 2), IndexNode(2, 1)>>}

NextIndex ==
    \/ SetPrivateKey(1)
    \/ DiscoPublicKey
    \/ \E nm \in IndexNetMaps : SetNetworkMap(nm)
    \/ ParseEndpoint(1)
    \/ \E sender \in {1, 2}, src \in IndexSources : HandleDiscoPing(sender, src)

SpecIndex == Init /\ [][NextIndex]_vars

\* C1: every entry ipp -> R of byIPPort names a peer R that lists ipp in its
\* ipPorts and that the node-key index reaches, and no other peer of the
\* peer map lists ipp.
C1_ByIPPortConsistent ==
    \A ipp \in DOMAIN peerMap.byIPPort :
        LET R == peerMap.byIPPort[ipp]
        IN /\ R \in DOMAIN heap
           /\ ipp \in heap[R].ipPorts
           /\ \E nk \in DOMAIN peerMap.byNodeKey : peerMap.byNodeKey[nk] = R
           /\ \A P \in (Range(peerMap.byNodeKey) \cup Range(peerMap.byDiscoKey)) \ {R} :
                 ipp \notin heap[P].ipPorts

\* C1 witness: two peers are in the peer map and each is the holder of one
\* of the two addresses.
C1_Witness ==
    /\ Cardinality(Range(peerMap.byNodeKey)) = 2
    /\ DOMAIN peerMap.byIPPort = IndexSources
    /\ peerMap.byIPPort[Addr4] # peerMap.byIPPort[Addr6]

\* the node keys of the network map installed last
NetMapKeys == {conn.netMap.Peers[i].Key : i \in 1..Len(conn.netMap.Peers)}

\* C11: on an open engine the node keys of the peer index are those of the
\* network map installed last, and ParseEndpoint of a node key returns the
\* endpoint the index holds for it if the key is in that map and the
\* unknown-peer error if it is not.
C11_ParseEndpointFollowsNetMap ==
    /\ [](DOMAIN peerMap.byNodeKey = NetMapKeys)
    /\ [][ParseEndpoint(1)
            => IF 1 \in NetMapKeys
               THEN wg'.parse = "ok" /\ wg'.handle = peerMap.byNodeKey[1]
               ELSE wg'.parse = "PeerUnknown" /\ wg'.handle = wg.handle]_vars

\* C11 witness: the upper layer holds the handle of node key 1 from an
\* earlier map, the map installed last has node key 2 only, and
\* ParseEndpoint of node key 1 has failed with the unknown-peer error.
C11_Witness ==
    /\ wg.parse = "PeerUnknown" /\ wg.handle # 0
    /\ NetMapKeys = {2} /\ DOMAIN peerMap.byNodeKey = {2}

(***************************************************************************)
(* SpecQueue: one peer that has a relay address and nothing else; the      *)
(* upper layer sends it up to MaxSends payloads while the writer of the    *)
(* relay client waits at its start gate or forwards.                       *)
(***************************************************************************)
RelayOnlyPeer == Node(1, 0, DerpAddrOf(1), <<>>)

NextQueue ==
    \/ SetPrivateKey(1)
    \/ SetDERPMap(DerpMapOf({1}))
    \/ SetNetworkMap(<<RelayOnlyPeer>>)
    \/ ParseEndpoint(1)
    \/ SendNext(MaxSends, FALSE)
    \/ ConnectReturn
    \/ ConnectBroadcast
    \/ \E id \in DOMAIN relay.clients : DerpWriterForward(id)

SpecQueue == Init /\ [][NextQueue]_vars

\* the requests queued for the active client of a region
QueueOf(r, region) ==
    IF region \in DOMAIN r.activeDerp
    THEN r.clients[r.activeDerp[region]].writeCh ELSE <<>>

\* a send to the relay-only peer that finds the queue of its region full
SendOnFullQueue ==
    /\ SendStep
    /\ ~conn.closed
    /\ IsZeroIPPort(wg'.res.udpTo)
    /\ Len(QueueOf(relay, 1)) = bufferedDerpWritesBeforeDrop

\* C5: when the writer has consumed nothing, the 33rd send to a peer whose
\* only path is the relay finds 32 requests queued and returns the
\* queue-full error (errDropDerpPacket) to its caller.
C5_ThirtyThirdSendFails ==
    [][(SendOnFullQueue /\ relay.forwarded = 0
        /\ wg'.res.b = bufferedDerpWritesBeforeDrop + 1)
          => wg'.res.err = "Drop"]_vars

QueueBounded ==
    \A id \in DOMAIN relay.clients :
        Len(relay.clients[id].writeCh) <= bufferedDerpWritesBeforeDrop

DroppedNotForwarded ==
    \A b \in wg.dropped :
        /\ relay.forwarded # b
        /\ \A id \in DOMAIN relay.clients :
              \A i \in 1..Len(relay.clients[id].writeCh) :
                  relay.clients[id].writeCh[i] # b

FullQueueDrops ==
    SendOnFullQueue
        => /\ wg'.res.derpErr = "Drop" /\ ~wg'.res.derpSent
           /\ wg'.res.b \in wg'.dropped
           /\ QueueOf(relay', 1) = QueueOf(relay, 1)

\* C6: the write queue of a relay client never holds more than 32 requests;
\* a send that finds the queue full returns at once with the request
\* dropped and the queue as it was; and a dropped payload is neither queued
\* nor forwarded by the writer.
C6_QueueBoundedDropNotForwarded ==
    [](QueueBounded /\ DroppedNotForwarded) /\ [][FullQueueDrops]_vars

\* C6 witness: a payload was dropped on a full queue, the writer has
\* forwarded others since, and the queue is full again.
C6_Witness ==
    /\ wg.dropped # {}
    /\ relay.forwarded > 0
    /\ Len(QueueOf(relay, 1)) = bufferedDerpWritesBeforeDrop

(***************************************************************************)
(* SpecClose: Conn.Close against the goroutines it waits for.  The peer's  *)
(* home region is 1, which the DERP map has, or 2, which it has not; relay *)
(* clients are made by a send and by the home connect of an endpoint       *)
(* update.                                                                 *)
(***************************************************************************)
CloseNetMaps == {<<Node(1, 0, DerpAddrOf(region), <<>>)>> : region \in {1, 2}}
CloseReports == {[err |-> FALSE, IPv4 |-> TRUE, IPv6 |-> TRUE, home |-> 1]}

NextClose ==
    \/ SetPrivateKey(1)
    \/ SetDERPMap(DerpMapOf({1}))
    \/ \E nm \in CloseNetMaps : SetNetworkMap(nm)
    \/ ParseEndpoint(1)
    \/ SendNext(MaxPathSends, FALSE)
    \/ ReSTUN
    \/ \E report \in CloseReports : UpdateEndpointsRun(report, TRUE)
    \/ UpdateEndpointsFinish
    \/ \E region \in relay.goConnect : GoDerpConnect(region)
    \/ ConnectReturn
    \/ ConnectBroadcast
    \/ \E id \in DOMAIN relay.clients : DerpWriterForward(id)
    \/ \E id \in DOMAIN relay.clients : DerpWriterExit(id)
    \/ \E id \in DOMAIN relay.clients : DerpReaderExit(id)
    \/ CloseBegin
    \/ CloseWait
    \/ CloseRecheck

SpecClose == Init /\ [][NextClose]_vars

\* a goroutine that will call muCond.Broadcast is still running
BroadcastPending ==
    \/ conn.goUpdateEndpoints # "none"
    \/ relay.connect \in {"connecting", "started"}

\* C9: Conn.Close always returns: whenever it is parked in muCond.Wait, or
\* has found goroutines running and is about to park, a goroutine that will
\* broadcast once the condition has changed is still running, so that no
\* wake-up is lost and the wait ends.
C9_CloseNeverStranded ==
    closer.pc \in {"checked", "waiting"} => BroadcastPending

\* C8: once Conn.Close has returned, a send on a handle obtained before
\* returns the closed error and transmits nothing, and ParseEndpoint returns
\* the closed error.
C8_ClosedAfterClose ==
    [][closer.pc = "done"
         => /\ SendStep => /\ wg'.res.err = "Closed"
                           /\ ~wg'.res.udpSent /\ ~wg'.res.derpSent
            /\ ParseEndpoint(1) => wg'.parse = "Closed"]_vars

(***************************************************************************)
(* SpecBind: connBind.Open and connBind.Close against the three receive    *)
(* functions, with a relay client whose reader delivers packets.           *)
(***************************************************************************)
NextBind ==
    \/ SetPrivateKey(1)
    \/ SetDERPMap(DerpMapOf({1}))
    \/ SetNetworkMap(<<RelayOnlyPeer>>)
    \/ ParseEndpoint(1)
    \/ SendNext(MaxPathSends, FALSE)
    \/ ConnectReturn
    \/ ConnectBroadcast
    \/ \E id \in DOMAIN relay.clients : DerpWriterForward(id)
    \/ \E id \in DOMAIN relay.clients : DerpReaderRecv(id, 1)
    \/ \E id \in DOMAIN relay.clients : DerpReaderOffer(id)
    \/ BindOpen
    \/ BindCloseBegin
    \/ BindCloseSend
    \/ ReceiveDERPCheck
    \/ ReceiveDERPAgain
    \/ ReceiveIPv4
    \/ ReceiveIPv6

SpecBind == Init /\ [][NextBind]_vars

\* receiveDERP is receiving on derpRecvCh or gets there without connBind.mu
ReceiverWillTake == bind.derpPc \in {"recv", "processing"}

\* C10: connBind.Close always returns and releases the receivers: while it
\* is blocked in its send on derpRecvCh (holding connBind.mu) receiveDERP
\* is or will be receiving, also when it has just taken a packet; and once
\* Close has returned, no receive function stays blocked: each has returned
\* the closed error or is about to.
C10_BindCloseReturns ==
    /\ bind.closePc = "sending" => ReceiverWillTake
    /\ bind.closePc = "done"
         => /\ bind.derpPc \in {"gotEmpty", "closedErr"}
            /\ bind.recv4 \in {"reading", "closedErr"} /\ conn.pconn4 = "closed"
            /\ bind.recv6 \in {"reading", "closedErr"} /\ conn.pconn6 = "closed"

(***************************************************************************)
(* SpecGate: the conditions under which the engine must refuse to send.    *)
(* One disco-capable peer with a relay address and one UDP endpoint; the   *)
(* network map that has it and the empty one; the network goes down and   *)
(* comes back; the heartbeat timer fires.                                  *)
(***************************************************************************)
GatePeer == Node(1, 1, DerpAddrOf(1), <<Addr4>>)
GateNetMaps == {<<GatePeer>>, <<>>}

NextGate ==
    \/ SetPrivateKey(1)
    \/ SetDERPMap(DerpMapOf({1}))
    \/ \E nm \in GateNetMaps : SetNetworkMap(nm)
    \/ ParseEndpoint(1)
    \/ \E up \in BOOLEAN : SetNetworkUp(up)
    \/ SendNext(MaxPathSends, FALSE)
    \/ \E g \in disco.pings : RunSendDiscoPing(g, FALSE)
    \/ \E d \in TickSizes : Tick(d)
    \/ \E id \in DOMAIN heap : HeartbeatFire(id)

SpecGate == Init /\ [][NextGate]_vars

\* the handle the upper layer holds names an endpoint the peer map has dropped
StaleHandle == wg.handle # 0 /\ wg.handle \notin Range(peerMap.byNodeKey)

\* C12: a send on a handle whose peer was removed from the network map
\* fails with the unknown-peer error, writes the payload nowhere and starts
\* no discovery ping.
C12_StaleHandleRefused ==
    [][(SendStep /\ StaleHandle)
         => /\ wg'.res.err = "PeerUnknown"
            /\ ~wg'.res.udpSent /\ ~wg'.res.derpSent
            /\ disco'.pings = disco.pings]_vars

\* a step in which Conn.Send was called
SendCall == wg'.res.b # wg.res.b

\* C13: while the network is marked down, a send returns the network-down
\* error and changes no peer, no relay client is created, and discovery is
\* paused: the heartbeat starts no ping (a ping once started is written to
\* the network by its goroutine, which does not look at the flag).
C13_NetworkDownPausesAll ==
    [][(~conn.networkUp /\ ~conn'.networkUp)
         => /\ SendCall => /\ wg'.res.err = "NetworkDown"
                           /\ UNCHANGED <<heap, peerMap, disco, relay>>
            /\ DOMAIN relay'.clients = DOMAIN relay.clients
            /\ (\E id \in DOMAIN heap : HeartbeatFire(id))
                  => disco'.pings = disco.pings]_vars

(***************************************************************************)
(* SpecKey: the private key is installed and zeroed while the endpoint     *)
(* update picks a home region and starts the connect to it, and while the  *)
(* upper layer sends to a peer whose UDP path pongs confirm.               *)
(***************************************************************************)
NextKey ==
    \/ \E k \in {0, 1} : SetPrivateKey(k)
    \/ DiscoPublicKey
    \/ SetDERPMap(DerpMapOf({1}))
    \/ SetNetworkMap(<<GatePeer>>)
    \/ ParseEndpoint(1)
    \/ SendNext(MaxPathSends, FALSE)
    \/ \E g \in disco.pings : RunSendDiscoPing(g, FALSE)
    \/ \E txid \in 1..MaxTx : HandleDiscoPong(1, txid, Addr4)
    \/ ReSTUN
    \/ \E report \in CloseReports : UpdateEndpointsRun(report, TRUE)
    \/ UpdateEndpointsFinish
    \/ \E region \in relay.goConnect : GoDerpConnect(region)

SpecKey == Init /\ [][NextKey]_vars

\* C14: while the private key is zero the table of relay clients is empty
\* and no client is made, whatever goroutine asks for one, and a call of
\* Conn.Send writes the payload neither to UDP nor to a relay client.
C14_ZeroKeyQuiet ==
    /\ [](conn.privateKey = 0 => DOMAIN relay.activeDerp = {})
    /\ [][(conn.privateKey = 0 /\ conn'.privateKey = 0)
            => /\ DOMAIN relay'.clients = DOMAIN relay.clients
               /\ SendCall => ~wg'.res.udpSent /\ ~wg'.res.derpSent]_vars

\* the key was zeroed with a client made before and a connect to the home
\* region still to run, and a send has been refused since
C14_Witness ==
    /\ conn.privateKey = 0
    /\ conn.everHadKey
    /\ DOMAIN relay.clients # {}
    /\ relay.goConnect # {}
    /\ wg.res.b > 0
    /\ \E id \in DOMAIN heap : heap[id].lastSend # 0

\* a step in which the deferred function of updateEndpoints ran
UpdaterFinishes ==
    conn.goUpdateEndpoints = "finishing" /\ conn'.goUpdateEndpoints # "finishing"

\* C15: at most one updateEndpoints goroutine exists, and it exists exactly
\* when endpointsUpdateActive is set; wantEndpointsUpdate is set only while
\* an update is active; on an open Conn the updater that finishes with
\* wantEndpointsUpdate set, however many calls of ReSTUN set it, clears it
\* and starts one follow-up, and the one that finishes with it clear starts
\* none.
C15_OneUpdater ==
    /\ [](/\ conn.updaters <= 1
          /\ conn.endpointsUpdateActive <=> conn.updaters = 1
          /\ conn.wantEndpointsUpdate => conn.endpointsUpdateActive)
    /\ [][(UpdaterFinishes /\ ~conn.closed)
            => /\ ~conn'.wantEndpointsUpdate
               /\ IF conn.wantEndpointsUpdate
                  THEN conn'.updaters = 1 /\ conn'.goUpdateEndpoints = "running"
                  ELSE conn'.updaters = 0 /\ conn'.goUpdateEndpoints = "none"]_vars

\* a follow-up is running that a call of ReSTUN during the first update
\* asked for, and a further call has come in while it runs
C15_Witness ==
    /\ conn.goUpdateEndpoints = "running"
    /\ conn.lastEndpointsTime # 0
    /\ conn.wantEndpointsUpdate
    /\ conn.updaters = 1

(***************************************************************************)
(* SpecRecv: WireGuard packets of one peer arrive at the three receivers,  *)
(* from the UDP addresses its discovery pings came from and over a relay,  *)
(* while the clock passes the ten seconds once.                            *)
(***************************************************************************)
NextRecv ==
    \/ SetPrivateKey(1)
    \/ DiscoPublicKey
    \/ SetNetworkMap(<<GatePeer>>)
    \/ \E src \in IndexSources : HandleDiscoPing(1, src)
    \/ \E r \in {"v4", "v6"}, ipp \in IndexSources : ReceiveIP(r, ipp)
    \/ ProcessDERPReadResult(1)
    \/ \E r \in Receivers : NoteRecvActivity(r)
    \/ Tick(recvActivityInterval + 1)

SpecRecv == Init /\ [][NextRecv]_vars

\* C16: two calls of the noteRecvActivity callback for the same peer are at
\* least ten seconds apart, whichever receivers the packets came in by.
C16_NotedOncePerInterval ==
    \A i, j \in 1..Len(wg.noted) :
        (i < j /\ wg.noted[i].key = wg.noted[j].key)
            => wg.noted[j].at - wg.noted[i].at >= recvActivityInterval

(***************************************************************************)
(* SpecLock: the handlers run side by side, each taking and releasing the  *)
(* mutexes in its order.                                                   *)
(***************************************************************************)
NextLock == \E t \in LockTasks : LockStep(t)

SpecLock == Init /\ [][NextLock]_vars

\* every goroutine of S waits for a mutex that a goroutine of S holds
DeadlockedSet(S) ==
    \A t \in S :
        /\ NextCall(t).op = "Lock"
        /\ \E u \in S : NextCall(t).mu \in Held(u)

\* C17: a goroutine that is about to lock Conn.mu holds no endpoint's mu,
\* none holds the mu of two endpoints, and no set of them wait for one
\* another.
C17_LockOrder ==
    /\ \A t \in LockTasks :
          /\ NextCall(t) = Lock(ConnMu) => Held(t) \cap PeerMus = {}
          /\ Cardinality(Held(t) \cap PeerMus) <= 1
    /\ \A S \in SUBSET LockTasks : S # {} => ~DeadlockedSet(S)

\* the pong handler holds Conn.mu and an endpoint's mu, and others wait for
\* each of the two
C17_Witness ==
    /\ Held("pong") = {ConnMu, "de1.mu"}
    /\ Blocked("send")
    /\ Blocked("UpdateStatus")
    /\ Blocked("Close")

(***************************************************************************)
(* Pongs (Spec).                                                           *)
(***************************************************************************)
\* the endpoint that a disco frame of the peer's disco key is handed to
PongReceiver == DiscoReceiver(1)

\* C18: a pong whose TxID is not in sentPing of the endpoint it is handed to
\* changes no endpoint and none of the indexes of the peerMap; this is the
\* case of a pong that comes a second time, its entry being gone.
C18_UnmatchedPongIgnored ==
    [][\A txid \in 1..MaxTx :
          (/\ HandleDiscoPong(1, txid, Addr4)
           /\ PongReceiver # 0
           /\ txid \notin DOMAIN heap[PongReceiver].sentPing)
              => UNCHANGED <<heap, peerMap>>]_vars

\* the pong for ping 1 was handled and made its address the best one: the
\* same pong coming again finds no entry
C18_Witness ==
    /\ PongReceiver # 0
    /\ disco.nextTx > 1
    /\ 1 \notin DOMAIN heap[PongReceiver].sentPing
    /\ \A g \in disco.pings : g.txid # 1
    /\ ~IsZeroIPPort(heap[PongReceiver].bestAddr.ipp)
    /\ heap[PongReceiver].bestAddrAt = now

\* the best address and the trust of endpoint de after a pong of latency l
\* at time t, when the pong counts for the address addr
PromotedFrom(de, addr, l, t) ==
    LET pong == [ipp |-> addr, latency |-> l]
        best == IF betterAddr(Duration(pong), Duration(de.bestAddr))
                THEN pong ELSE de.bestAddr
    IN IF best.ipp = addr
       THEN [bestAddr |-> pong, trustBestAddrUntil |-> t + trustUDPAddrDuration]
       ELSE [bestAddr |-> de.bestAddr, trustBestAddrUntil |-> de.trustBestAddrUntil]

\* C19 as stated: a pong from the UDP address src that answers a ping of
\* ours to an address the endpoint still has: (src, latency) is compared with
\* bestAddr and replaces it when better; when bestAddr then has the address
\* src its latency is the pong's and trustBestAddrUntil is
\* now + trustUDPAddrDuration; otherwise both stay as they were.
C19_PongPromotesSource ==
    [][\A txid \in 1..MaxTx :
          (/\ HandleDiscoPong(1, txid, Addr4)
           /\ PongReceiver # 0
           /\ txid \in DOMAIN heap[PongReceiver].sentPing
           /\ heap[PongReceiver].sentPing[txid].to
                  \in DOMAIN heap[PongReceiver].endpointState)
              => LET de == heap[PongReceiver]
                     want == PromotedFrom(de, Addr4, now - de.sentPing[txid].at, now)
                 IN /\ heap'[PongReceiver].bestAddr = want.bestAddr
                    /\ heap'[PongReceiver].trustBestAddrUntil = want.trustBestAddrUntil]_vars

\* C19, amended: the pong counts for the address the ping was sent to,
\* sentPing[txid].to, whatever address it came from: (to, latency) is
\* compared with bestAddr and replaces it when better; when bestAddr then has
\* the address to, its latency is the pong's and trustBestAddrUntil is
\* now + trustUDPAddrDuration; otherwise both stay as they were.
C19_PongPromotesPinged ==
    [][\A txid \in 1..MaxTx :
          (/\ HandleDiscoPong(1, txid, Addr4)
           /\ PongReceiver # 0
           /\ txid \in DOMAIN heap[PongReceiver].sentPing
           /\ heap[PongReceiver].sentPing[txid].to
                  \in DOMAIN heap[PongReceiver].endpointState)
              => LET de == heap[PongReceiver]
                     sp == de.sentPing[txid]
                     want == PromotedFrom(de, sp.to, now - sp.at, now)
                 IN /\ heap'[PongReceiver].bestAddr = want.bestAddr
                    /\ heap'[PongReceiver].trustBestAddrUntil = want.trustBestAddrUntil]_vars

\* a pong that came from the IPv4 address answered the ping to the IPv6
\* address, which is the best address now and trusted from this moment
C19_Witness ==
    /\ PongReceiver # 0
    /\ heap[PongReceiver].bestAddr.ipp = Addr6
    /\ heap[PongReceiver].bestAddrAt = now
    /\ heap[PongReceiver].trustBestAddrUntil = now + trustUDPAddrDuration
    /\ Addr4 \in DOMAIN peerMap.byIPPort
    /\ Addr6 \notin DOMAIN peerMap.byIPPort

(***************************************************************************)
(* SpecBetter: betterAddr is called on two values of addrLatency, the      *)
(* addresses being none, two IPv4 addresses and an IPv6 address, and the   *)
(* latencies any number of nanoseconds up to MaxLatency.                   *)
(***************************************************************************)
CmpAddrs == {ZeroIPPort, Addr4, IPPortFrom("198.51.100.7", 41642), Addr6}
CmpInputs == [ipp : CmpAddrs, latency : 0..MaxLatency]

InitBetter == InitConn /\ cmp \in [a : CmpInputs, b : CmpInputs, res : {NoResult}]

BetterAddrCall ==
    /\ ~cmp.res.done
    /\ cmp' = [cmp EXCEPT !.res = [done |-> TRUE, ab |-> betterAddr(cmp.a, cmp.b),
                                   ba |-> betterAddr(cmp.b, cmp.a)]]
    /\ UNCHANGED <<clock, conn, peerMap, heap, disco, relay, wg, closer, bind, locks>>

NextBetter == BetterAddrCall

SpecBetter == InitBetter /\ [][NextBetter]_vars

\* the rule for better(a, b), with the tenth taken off the latency exactly
RuleBetter(a, b) ==
    IF a.ipp = b.ipp THEN FALSE
    ELSE IF IsZeroIPPort(b.ipp) THEN TRUE
    ELSE IF IsZeroIPPort(a.ipp) THEN FALSE
    ELSE IF Is6(a.ipp) /\ Is4(b.ipp) THEN a.latency * 9 < b.latency * 10
    ELSE IF Is4(a.ipp) /\ Is6(b.ipp)
    THEN IF b.latency * 9 < a.latency * 10 THEN FALSE ELSE a.latency < b.latency
    ELSE a.latency < b.latency

\* C20: betterAddr(a, b) is what the rule says for every a and b, and
\* betterAddr(a, b) and betterAddr(b, a) are never both true.
C20_BetterAddrIsRule ==
    cmp.res.done
        => /\ cmp.res.ab = RuleBetter(cmp.a, cmp.b)
           /\ ~(cmp.res.ab /\ cmp.res.ba)

(***************************************************************************)
(* SpecProbe: sends probe the paths of one peer; the pings are written or  *)
(* fail to be written, are answered or time out; the private key comes and *)
(* goes.  The clock moves from one ping's deadline to the next, and the     *)
(* timers and the clock are fair.                                          *)
(***************************************************************************)
NextProbe ==
    \/ \E k \in {0, 1} : SetPrivateKey(k)
    \/ DiscoPublicKey
    \/ \E nm \in PathNetMaps : SetNetworkMap(nm)
    \/ ParseEndpoint(1)
    \/ SendNext(MaxPathSends, FALSE)
    \/ \E g \in disco.pings, werr \in BOOLEAN : RunSendDiscoPing(g, werr)
    \/ \E txid \in 1..MaxTx : HandleDiscoPong(1, txid, Addr4)
    \/ \E id \in DOMAIN heap, txid \in 1..MaxTx : PingTimeout(id, txid)
    \/ TimerTick

SpecProbe ==
    /\ Init /\ [][NextProbe]_vars
    /\ WF_vars(TimerTick)
    /\ \A txid \in 1..MaxTx : WF_vars(\E id \in DOMAIN heap : PingTimeout(id, txid))

\* the ping txid is in sentPing of some endpoint
Outstanding(txid) == \E id \in DOMAIN heap : txid \in DOMAIN heap[id].sentPing

\* the candidates a full probe of de at time t has to ping
DueForPing(de, t) ==
    {ep \in DOMAIN de.endpointState :
        /\ ~shouldDeleteLocked(de.endpointState[ep], t)
        /\ \/ de.endpointState[ep].lastPing = 0
           \/ t - de.endpointState[ep].lastPing >= discoPingInterval}

ProbeStep == SendNext(MaxPathSends, FALSE) /\ wg'.res.probe

ProbePingsDue ==
    LET started == disco'.pings \ disco.pings
        due == DueForPing(heap[wg.handle], now)
    IN /\ {g.to : g \in started} = due
       /\ Cardinality(started) = Cardinality(due)
       /\ \A g \in started :
             /\ g.ep = wg.handle
             /\ g.txid >= disco.nextTx
             /\ ~Outstanding(g.txid)
             /\ g.txid \in DOMAIN heap'[g.ep].sentPing
             /\ heap'[g.ep].sentPing[g.txid].to = g.to
             /\ heap'[g.ep].sentPing[g.txid].at = now

RemovalCause(txid) ==
    \/ HandleDiscoPong(1, txid, Addr4)
    \/ \E id \in DOMAIN heap : PingTimeout(id, txid)
    \/ \E g \in disco.pings : g.txid = txid /\ RunSendDiscoPing(g, TRUE)
    \/ SetPrivateKey(0)

BeatNetMap == <<Node(1, 1, DerpAddrOf(1), <<Addr4>>), Node(2, 0, DerpAddrOf(1), <<>>)>>
BeatSizes == {heartbeatInterval, sessionActiveTimeout}

BeatTick(d) ==
    /\ clock.ticks < MaxBeats
    /\ clock' = [now |-> clock.now + d, ticks |-> clock.ticks + 1]
    /\ UNCHANGED <<conn, peerMap, heap, disco, relay, wg, closer, bind, locks, cmp>>

NextBeat ==
    \/ SetPrivateKey(1)
    \/ DiscoPublicKey
    \/ SetNetworkMap(BeatNetMap)
    \/ \E nk \in {1, 2} : ParseEndpoint(nk)
    \/ SendNext(MaxPathSends, FALSE)
    \/ \E g \in disco.pings : RunSendDiscoPing(g, FALSE)
    \/ \E txid \in 1..MaxTx : HandleDiscoPong(1, txid, Addr4)
    \/ \E id \in DOMAIN heap : HeartbeatFire(id)
    \/ \E d \in BeatSizes : BeatTick(d)

SpecBeat == Init /\ [][NextBeat]_vars

BeatSend == SendNext(MaxPathSends, FALSE)

\* what a send does to the heartbeat timer of the endpoint it goes to
SendArmsTimer ==
    LET de == heap[wg.handle]
    IN heap'[wg.handle].heartBeatTimer =
          IF canP2P(de) /\ de.heartBeatTimer = 0 THEN now + heartbeatInterval
          ELSE de.heartBeatTimer

\* what a tick of the heartbeat timer of endpoint id does
BeatOrStop(id) ==
    LET de == heap[id]
        started == disco'.pings \ disco.pings
    IN IF now - de.lastSend <= sessionActiveTimeout
       THEN /\ heap'[id].heartBeatTimer = now + heartbeatInterval
            /\ ~IsZeroIPPort(de.bestAddr.ipp) =>
                  \E g \in started : g.ep = id /\ g.to = de.bestAddr.ipp
       ELSE /\ heap'[id] = [de EXCEPT !.heartBeatTimer = 0]
            /\ disco' = disco

\* C22: a send to a peer with a disco key arms the heartbeat timer if it is
\* not armed and leaves it alone otherwise; a tick of the timer pings the best
\* address if there is one and arms the timer again while the last send is at
\* most sessionActiveTimeout back, and otherwise only drops the timer, so
\* that nothing but a send arms it again; an endpoint without a disco key
\* has no timer.
C22_Heartbeat ==
    /\ [][BeatSend => SendArmsTimer]_vars
    /\ [][\A id \in DOMAIN heap : HeartbeatFire(id) => BeatOrStop(id)]_vars
    /\ [][\A id \in DOMAIN heap \cap DOMAIN heap' :
            heap[id].heartBeatTimer = 0 /\ heap'[id].heartBeatTimer # 0
               => BeatSend /\ wg.handle = id]_vars
    /\ [](\A id \in DOMAIN heap : ~canP2P(heap[id]) => heap[id].heartBeatTimer = 0)

\* a session with a best address that went idle: the timer was dropped
C22_Witness ==
    \E id \in DOMAIN heap :
        /\ canP2P(heap[id])
        /\ ~IsZeroIPPort(heap[id].bestAddr.ipp)
        /\ heap[id].lastSend # 0
        /\ now - heap[id].lastSend > sessionActiveTimeout
        /\ heap[id].heartBeatTimer = 0
        /\ \E txid \in DOMAIN heap[id].sentPing :
              heap[id].sentPing[txid].purpose = "pingHeartbeat"

(***************************************************************************)
(* SpecCall: CallMeMaybe messages of one peer come in over the relay and   *)
(* over UDP and are handled, between sends to the peer.                    *)
(***************************************************************************)
CallPeer == Node(1, 1, DerpAddrOf(1), <<>>)
CallSources == {DerpAddrOf(1), Addr4}
CallNumbers == {{Addr4, Addr6}, {Addr6}, {Addr4}}
CallNetMaps == {<<CallPeer>>, <<Node(1, 1, DerpAddrOf(1), <<Addr4>>)>>}

NextCallMeMaybe ==
    \/ SetPrivateKey(1)
    \/ DiscoPublicKey
    \/ \E nm \in CallNetMaps : SetNetworkMap(nm)
    \/ ParseEndpoint(1)
    \/ SendNext(MaxPathSends, FALSE)
    \/ \E txid \in 1..MaxTx : HandleDiscoPong(1, txid, Addr4)
    \/ \E src \in CallSources, eps \in CallNumbers :
          HandleDiscoCallMeMaybeFrom(1, src, eps)
    \/ \E g \in disco.cmm : RunHandleCallMeMaybe(g)
    \/ \E g \in disco.pings : RunSendDiscoPing(g, FALSE)
    \/ \E g \in disco.wantCMM : EnqueueCallMeMaybe(g)
    \/ \E d \in TickSizes : Tick(d)

SpecCall == Init /\ [][NextCallMeMaybe]_vars

\* what handleCallMeMaybe leaves behind for the message g
CalledAndPinged(g) ==
    LET de == heap'[g.ep]
        started == disco'.pings \ disco.pings
    IN /\ \A ep \in g.eps :
             /\ ep \in DOMAIN de.endpointState
             /\ de.endpointState[ep].callMeMaybeTime = now
       /\ {p.to : p \in started} = DOMAIN de.endpointState
       /\ \A p \in started : p.ep = g.ep /\ p.txid \in DOMAIN de.sentPing
       /\ disco'.wantCMM = disco.wantCMM
       /\ disco'.cmmOut = disco.cmmOut

Advertised(de) ==
    UNION {Range(conn.netMap.Peers[i].Endpoints) :
             i \in {j \in 1..Len(conn.netMap.Peers) :
                       conn.netMap.Peers[j].Key = de.publicKey}}

\* what is left of the addresses of the earlier CallMeMaybe that the message
\* g leaves out
EarlierNumbersKept(g) ==
    LET de == heap[g.ep]
    IN \A ep \in de.isCallMeMaybeEP \ g.eps :
          /\ ep \notin heap'[g.ep].isCallMeMaybeEP
          /\ ep \in DOMAIN heap'[g.ep].endpointState <=> ep \in Advertised(de)
          /\ ep \in Advertised(de) /\ de.bestAddr.ipp = ep
                => heap'[g.ep].bestAddr = de.bestAddr

\* C24: an address of an earlier CallMeMaybe that a later one leaves out is
\* taken out of isCallMeMaybeEP; its state, and a best address equal to it,
\* stay if the network map lists the address, and its state goes if not.
C24_AdvertisedNumberKept ==
    [][\A g \in disco.cmm : RunHandleCallMeMaybe(g) => EarlierNumbersKept(g)]_vars

(***************************************************************************)
(* SpecNode: the network map changes the endpoints it lists for one peer,  *)
(* while addresses of the peer are learned from its pings and from its     *)
(* CallMeMaybe, one address becomes the best one, and sessions grow old.   *)
(***************************************************************************)
NodeNetMaps ==
    {<<Node(1, 1, DerpAddrOf(1), eps)>> : eps \in {<<>>, <<Addr4>>, <<Addr6, Addr4>>}}

NextNode ==
    \/ SetPrivateKey(1)
    \/ DiscoPublicKey
    \/ \E nm \in NodeNetMaps : SetNetworkMap(nm)
    \/ ParseEndpoint(1)
    \/ SendNext(MaxPathSends, FALSE)
    \/ \E g \in disco.pings : RunSendDiscoPing(g, FALSE)
    \/ HandleDiscoPing(1, Addr6)
    \/ \E txid \in 1..MaxTx : HandleDiscoPong(1, txid, Addr4)
    \/ HandleDiscoCallMeMaybe(1, 1, {Addr4})
    \/ \E g \in disco.cmm : RunHandleCallMeMaybe(g)
    \/ Tick(sessionActiveTimeout + 1)

SpecNode == Init /\ [][NextNode]_vars

\* should_delete of the state of ep in de, for the new node n
ShouldDelete(de, ep, n) ==
    /\ de.endpointState[ep].callMeMaybeTime = 0
    /\ IF de.endpointState[ep].lastGotPing # 0
       THEN now - de.endpointState[ep].lastGotPing > sessionActiveTimeout
       ELSE ep \notin Range(n.Endpoints)

\* the endpoint before and after updateFromNode(n)
UpdatedFromNode(de, after, n) ==
    /\ \A ep \in DOMAIN de.endpointState :
          IF ShouldDelete(de, ep, n)
          THEN ep \in DOMAIN after.endpointState =>
                  after.endpointState[ep] =
                     NewEndpointState(0, 0, after.endpointState[ep].index)
          ELSE /\ ep \in DOMAIN after.endpointState
               /\ \E i \in -1..Len(n.Endpoints) :
                     after.endpointState[ep] = [de.endpointState[ep] EXCEPT !.index = i]
    /\ \A ep \in Range(n.Endpoints) :
          /\ ep \in DOMAIN after.endpointState
          /\ n.Endpoints[after.endpointState[ep].index + 1] = ep
    /\ DOMAIN after.endpointState \subseteq DOMAIN de.endpointState \cup Range(n.Endpoints)
    /\ after.bestAddr =
          IF /\ de.bestAddr.ipp \in DOMAIN de.endpointState
             /\ ShouldDelete(de, de.bestAddr.ipp, n)
          THEN ZeroAddrLatency ELSE de.bestAddr

FreshNetMaps == {<<Node(1, 1, DerpAddrOf(r), <<Addr4>>)>> : r \in {1, 2}}
FreshTicks == {discoPingInterval + 1, endpointsFreshEnoughDuration}

NextFresh ==
    \/ \E k \in {0, 1} : SetPrivateKey(k)
    \/ SetDERPMap(DerpMapOf({1}))
    \/ \E nm \in FreshNetMaps : SetNetworkMap(nm)
    \/ ParseEndpoint(1)
    \/ SendNext(MaxPathSends, FALSE)
    \/ \E g \in disco.wantCMM : EnqueueCallMeMaybe(g)
    \/ GoReSTUN
    \/ \E report \in CloseReports, anySTUN \in BOOLEAN : UpdateEndpointsRun(report, anySTUN)
    \/ UpdateEndpointsFinish
    \/ \E d \in FreshTicks : Tick(d)

SpecFresh == Init /\ [][NextFresh]_vars

\* the endpoints were determined less than endpointsFreshEnoughDuration ago
EndpointsFresh ==
    /\ conn.lastEndpointsTime # 0
    /\ now - conn.lastEndpointsTime < endpointsFreshEnoughDuration

\* enqueueCallMeMaybe for g: sent if the endpoints are fresh, put off if not
SentOrDeferred(g) ==
    IF EndpointsFresh
    THEN /\ g \in disco'.cmmOut
         /\ conn'.onEndpointRefreshed = conn.onEndpointRefreshed
         /\ disco'.restun = disco.restun
    ELSE /\ disco'.cmmOut = disco.cmmOut
         /\ "refresh-for-peering" \in disco'.restun
         /\ conn'.onEndpointRefreshed =
               {x \in conn.onEndpointRefreshed : x.ep # g.ep} \cup {g}

\* setEndpoints takes the update: there is a STUN endpoint or a DERP map
Accepted(report, anySTUN) == ~report.err /\ (anySTUN \/ ~conn.derpMap.nil)

\* C26: a CallMeMaybe is handed to the sender only in a step that finds the
\* endpoints fresh; a request that finds them stale asks for ReSTUN and
\* leaves one continuation for the peer, in place of an earlier one; the
\* endpoint update that is accepted starts each continuation and removes it,
\* one that is not accepted leaves them; and zeroing the private key
\* removes them without starting them.
C26_FreshEndpoints ==
    /\ [][\A g \in disco.wantCMM : EnqueueCallMeMaybe(g) => SentOrDeferred(g)]_vars
    /\ [][disco'.cmmOut # disco.cmmOut => EndpointsFresh]_vars
    /\ [](\A x, y \in conn.onEndpointRefreshed : x.ep = y.ep => x = y)
    /\ [][\A report \in CloseReports, anySTUN \in BOOLEAN :
            UpdateEndpointsRun(report, anySTUN) =>
               IF Accepted(report, anySTUN)
               THEN /\ conn'.onEndpointRefreshed = {}
                    /\ disco'.wantCMM = disco.wantCMM \cup conn.onEndpointRefreshed
               ELSE /\ conn'.onEndpointRefreshed = conn.onEndpointRefreshed
                    /\ disco'.wantCMM = disco.wantCMM]_vars
    /\ [][SetPrivateKey(0) /\ conn.privateKey # 0 =>
            /\ conn'.onEndpointRefreshed = {}
            /\ disco'.wantCMM = disco.wantCMM]_vars

\* a CallMeMaybe that was put off has been sent after the endpoint update,
\* and a later one is waiting for the next update
C26_Witness ==
    /\ disco.cmmOut # {}
    /\ conn.onEndpointRefreshed # {}
    /\ ~EndpointsFresh

(***************************************************************************)
(* SpecEndpoints: endpoint updates determine lists of endpoints, in any    *)
(* order and with repeats, before and after the DERP map is set.           *)
(***************************************************************************)
EndpointValues == {StunEndpoint, LocalEndpoint, [Addr |-> Addr6, Type |-> "local"]}
EndpointLists == UNION {[1..n -> EndpointValues] : n \in 0..MaxEndpoints}

NextEndpoints ==
    \/ SetPrivateKey(1)
    \/ SetDERPMap(DerpMapOf({1}))
    \/ ReSTUN
    \/ \E report \in CloseReports, eps \in EndpointLists : UpdateEndpointsWith(report, eps)
    \/ UpdateEndpointsFinish

SpecEndpoints == Init /\ [][NextEndpoints]_vars

\* epFunc was called in this step
EpFuncCalled == wg'.ep.calls # wg.ep.calls

SweepDerpMaps == {DerpMapOf({1, 2}), DerpMapOf({})}
SweepReports == {[err |-> FALSE, IPv4 |-> TRUE, IPv6 |-> TRUE, home |-> h] : h \in 0..2}
SweepTicks == {derpInactiveCleanupTime + 1}

NextSweep ==
    \/ SetPrivateKey(1)
    \/ \E dm \in SweepDerpMaps : SetDERPMap(dm)
    \/ ReSTUN
    \/ \E report \in SweepReports : UpdateEndpointsWith(report, <<StunEndpoint>>)
    \/ UpdateEndpointsFinish
    \/ \E region \in 1..2 : GoDerpConnect(region)
    \/ CleanStaleDerp
    \/ \E d \in SweepTicks : BeatTick(d)

SpecSweep == Init /\ [][NextSweep]_vars

\* a relay client is open for a region that is not the home region
NonHomeOpen == \E i \in DOMAIN relay.activeDerp : i # conn.myDerp

\* C28: whenever a non-home relay client is open on a running engine (and
\* no goroutine that connects to a region is still to run), the idle-cleanup
\* timer is armed, so that a sweep will come and close the client once it
\* has had no write request for derpInactiveCleanupTime.
C28_SweepArmed ==
    (~conn.closed /\ relay.goConnect = {} /\ NonHomeOpen)
        => (relay.cleanup.armed /\ relay.cleanup.at # 0)

\* the sweep never closes the client of the current home region
SweepSparesHome ==
    [][CleanStaleDerp
         => (conn.myDerp \in DOMAIN relay.activeDerp
               => /\ conn.myDerp \in DOMAIN relay'.activeDerp
                  /\ relay'.activeDerp[conn.myDerp] = relay.activeDerp[conn.myDerp])]_vars

\* a sweep closes a client
SweptOne ==
    \E id \in DOMAIN relay.clients :
        /\ relay.clients[id].ctxDone
        /\ conn.privateKey # 0 /\ ~conn.derpMap.nil /\ conn.networkUp /\ ~conn.closed
(***************************************************************************)
(* SpecRoute: the reverse routes.  One relay-only peer whose home region   *)
(* is 1 or 2; the relay clients are made by sending to it; their readers   *)
(* get its packets, register its route, hand the packets to receiveDERP,   *)
(* lose their connection; Rebind closes the clients.                       *)
(***************************************************************************)
NextRoute ==
    \/ SetPrivateKey(1)
    \/ SetDERPMap(DerpMapOf({1, 2}))
    \/ \E nm \in CloseNetMaps : SetNetworkMap(nm)
    \/ ParseEndpoint(1)
    \/ SendNext(MaxRouteSends, FALSE)
    \/ Rebind
    \/ ConnectReturn
    \/ \E id \in DOMAIN relay.clients : DerpReaderRecv(id, 1)
    \/ \E id \in DOMAIN relay.clients : DerpReaderRecvError(id)
    \/ \E id \in DOMAIN relay.clients : DerpReaderOffer(id)
    \/ \E id \in DOMAIN relay.clients : DerpReaderExit(id)
    \/ \E id \in DOMAIN relay.clients : DerpWriterExit(id)
    \/ BindOpen
    \/ ReceiveDERPCheck
    \/ ReceiveDERPAgain

SpecRoute == Init /\ [][NextRoute]_vars

\* the peers whose reverse route was registered by client id
RoutedBy(r, id) == {peer \in DOMAIN r.derpRoute : r.derpRoute[peer].dc = id}

\* C29: when a relay client was closed, no reverse route that it registered
\* is left once its reader has returned, whatever the reader was doing when
\* the client was closed; and the removal leaves alone the routes that
\* another client registered.
C29_RoutesRemoved ==
    \A id \in DOMAIN relay.clients :
        (relay.clients[id].ctxDone /\ relay.clients[id].readerDone)
            => RoutedBy(relay, id) = {}

\* a reader that forgets its routes leaves those of the other clients alone
RemovalSparesOthers ==
    [][\A id \in DOMAIN relay.clients :
          (DerpReaderExit(id) \/ DerpReaderRecvError(id))
             => \A peer \in DOMAIN relay.derpRoute :
                   relay.derpRoute[peer].dc # id
                      => /\ peer \in DOMAIN relay'.derpRoute
                         /\ relay'.derpRoute[peer] = relay.derpRoute[peer]]_vars

\* a reader returns while the route of its peer belongs to another client
RemovalSparedOther ==
    \E id \in DOMAIN relay.clients :
        /\ relay.clients[id].readerDone
        /\ 1 \in DOMAIN relay.derpRoute
        /\ relay.derpRoute[1].dc # id
        /\ relay.clients[relay.derpRoute[1].dc].region # relay.clients[id].region
\* the payload of the Send of this step went into the write queue of client
\* id, and into no other queue
QueuedOn(id) ==
    /\ id \in DOMAIN relay'.clients
    /\ relay'.clients[id].writeCh # <<>>
    /\ relay'.clients[id].writeCh[Len(relay'.clients[id].writeCh)] = wg'.res.b
    /\ \A j \in DOMAIN relay.clients \ {id} :
          relay'.clients[j].writeCh = relay.clients[j].writeCh

\* the client a reverse route of the peer of the handle leads to: an open
\* client that is the one that recorded the route; 0 if there is none
RouteClient ==
    LET peer == heap[wg.handle].publicKey
    IN IF /\ peer \in DOMAIN relay.derpRoute
          /\ \E i \in DOMAIN relay.activeDerp :
                relay.derpRoute[peer] = [derpID |-> i, dc |-> relay.activeDerp[i]]
       THEN relay.derpRoute[peer].dc
       ELSE 0

\* the open client of the region the Send of this step asked for, 0 if none
RegionClient == Lookup(relay.activeDerp, wg'.res.derpTo.port)

\* the client made by this step
MadeClient == Cardinality(DOMAIN relay.clients) + 1

\* a step in which Conn.Send put its payload into a relay write queue
RelaySendStep == SendStep /\ wg'.res.derpSent

NextShut ==
    \/ SetPrivateKey(1)
    \/ SetDERPMap(DerpMapOf({1}))
    \/ ReSTUN
    \/ \E report \in CloseReports : UpdateEndpointsWith(report, <<StunEndpoint>>)
    \/ UpdateEndpointsFinish
    \/ GoDerpConnectUpTo(1, MaxGenerations)
    \/ Rebind
    \/ ConnectReturn
    \/ \E id \in DOMAIN relay.clients : DerpClientClose(id)
    \/ \E id \in DOMAIN relay.clients : DerpReaderExit(id)
    \/ \E id \in DOMAIN relay.clients : DerpWriterExit(id)

SpecShut == Init /\ [][NextShut]_vars

\* C31: the connection of a relay client is closed only after its reader
\* and its writer were cancelled and have both terminated.
C31_CloseAfterTasks ==
    \A id \in DOMAIN relay.clients :
        relay.clients[id].dc = "closed"
            => /\ relay.clients[id].ctxDone
               /\ relay.clients[id].readerDone
               /\ relay.clients[id].writerDone
\* the reader or the writer of client id may be past its start gate
MayRun(id) ==
    /\ GateOpen(relay, id)
    /\ ~WgDone(relay, id)

\* C34: the reader and the writer of a relay client do not pass their start
\* gate until both tasks of every earlier client of the same region have
\* terminated, also when a client in between was cancelled before it started.
C34_GenerationsOrdered ==
    \A id, j \in DOMAIN relay.clients :
        (j < id /\ relay.clients[j].region = relay.clients[id].region /\ MayRun(id))
            => WgDone(relay, j)

\* the tasks of a client wait at their start gate for those of the client
\* made just before it for the region
PreviousGenerationAwaited ==
    \A id \in DOMAIN relay.clients :
        (relay.clients[id].gate > 0 /\ MayRun(id))
            => /\ relay.clients[id].gate = id - 1
               /\ WgDone(relay, id - 1)
(***************************************************************************)
(* SpecHome: the connection to the home region.  The network check prefers *)
(* region 1 or 2; the tunnel key is set, changed and zeroed; the relay map *)
(* is disabled and enabled; the network goes down and up; Rebind.          *)
(***************************************************************************)
HomeDerpMaps == {NilDerpMap, DerpMapOf({1, 2})}
HomeReports == {[err |-> FALSE, IPv4 |-> TRUE, IPv6 |-> TRUE, home |-> h] : h \in 1..2}

HomeUpdate == \E report \in HomeReports : UpdateEndpointsWith(report, <<StunEndpoint>>)

NextHome ==
    \/ \E k \in 0..2 : SetPrivateKey(k)
    \/ \E dm \in HomeDerpMaps : SetDERPMap(dm)
    \/ \E up \in BOOLEAN : SetNetworkUp(up)
    \/ ReSTUN
    \/ HomeUpdate
    \/ UpdateEndpointsFinish
    \/ \E region \in 1..2 : GoDerpConnect(region)
    \/ Rebind

SpecHome == Init /\ [][NextHome]_vars

\* the home region is set and in the relay map, a key is installed, the
\* network is up
HomeWanted ==
    /\ ~conn.closed
    /\ conn.myDerp # 0
    /\ ~conn.derpMap.nil /\ conn.myDerp \in conn.derpMap.Regions
    /\ conn.privateKey # 0
    /\ conn.networkUp

\* a client of the home region is open or the goroutine that makes it is started
HomeOpenOrStarted ==
    \/ conn.myDerp \in DOMAIN relay.activeDerp
    \/ conn.myDerp \in relay.goConnect

\* C32: after every step that is to re-establish the home connection (an
\* endpoint update with its choice of the home region, as started by
\* SetDERPMap when the relay map is enabled; a key change; a rebind; the
\* network going down or up; the connect goroutine), a client of the home
\* region is open or being made whenever the home region is non-zero and in
\* the relay map, a key is installed and the network is up.
C32_HomeConnected ==
    [][(\/ HomeUpdate
        \/ \E k \in 0..2 : SetPrivateKey(k)
        \/ \E up \in BOOLEAN : SetNetworkUp(up)
        \/ \E region \in 1..2 : GoDerpConnect(region)
        \/ Rebind)
         => (HomeWanted' => HomeOpenOrStarted')]_vars
(***************************************************************************)
(* SpecDrop: the receivers while the tunnel key comes and goes.  One       *)
(* disco-capable peer, known by its relay address and, after a discovery   *)
(* ping, by a UDP address; its packets arrive over UDP and over the relay  *)
(* client of region 1, whose reader hands them to receiveDERP.             *)
(***************************************************************************)
NextDrop ==
    \/ \E k \in 0..1 : SetPrivateKey(k)
    \/ DiscoPublicKey
    \/ SetDERPMap(DerpMapOf({1}))
    \/ SetNetworkMap(<<GatePeer>>)
    \/ ParseEndpoint(1)
    \/ SendNext(1, FALSE)
    \/ ConnectReturn
    \/ HandleDiscoPing(1, Addr4)
    \/ \E id \in DOMAIN relay.clients : DerpReaderRecv(id, 1)
    \/ \E id \in DOMAIN relay.clients : DerpReaderOffer(id)
    \/ \E id \in DOMAIN relay.clients : DerpReaderExit(id)
    \/ BindOpen
    \/ ReceiveDERPCheck
    \/ ReceiveDERPProcess(1)
    \/ \E r \in {"v4", "v6"} : ReceiveIP(r, Addr4)
    \/ \E r \in Receivers : NoteRecvActivity(r)

SpecDrop == Init /\ [][NextDrop]_vars

\* receiver r has a tunnel payload of a peer that it returns to the upper layer
Surfaces(r) == bind'.note[r].ep # 0 /\ bind.note[r].ep = 0

\* C33: while no tunnel key is installed, no receiver (IPv4, IPv6, relay)
\* returns a tunnel payload to the upper layer, also not a relay packet
\* that was in flight when the key was zeroed.
C33_NoKeyNoPayload ==
    [][conn.privateKey = 0 => \A r \in Receivers : ~Surfaces(r)]_vars

\* the UDP receivers return no tunnel payload while no key is installed
NoKeyNoUDPPayload ==
    [][conn.privateKey = 0 => \A r \in {"v4", "v6"} : ~Surfaces(r)]_vars

\* a UDP receiver is asked for a payload of a known address without a key
UDPAskedWithoutKey ==
    /\ conn.privateKey = 0 /\ conn.everHadKey
    /\ endpointForIPPort(peerMap, Addr4) # 0
(***************************************************************************)
(* SpecCache: the one-slot endpoint cache of the UDP receivers.  Two       *)
(* disco-capable peers; discovery pings of either arrive from the same     *)
(* address, so that the address index is remapped between them.            *)
(***************************************************************************)
CacheNetMaps == {<<IndexNode(1, 1), IndexNode(2, 2)>>, <<IndexNode(1, 1)>>}

NextCache ==
    \/ \E k \in 0..1 : SetPrivateKey(k)
    \/ DiscoPublicKey
    \/ \E nm \in CacheNetMaps : SetNetworkMap(nm)
    \/ \E sender \in {1, 2} : HandleDiscoPing(sender, Addr4)
    \/ \E r \in {"v4", "v6"} : ReceiveIP(r, Addr4)
    \/ \E r \in {"v4", "v6"} : NoteRecvActivity(r)

SpecCache == Init /\ [][NextCache]_vars

\* C35: the endpoint an IPv4/IPv6 receiver returns with a datagram is the
\* one the address index maps the datagram's source to at that time, also
\* after the index has remapped or dropped the address.
C35_CacheTransparent ==
    [][\A r \in {"v4", "v6"} :
          Surfaces(r) =>
              bind'.note[r].ep = endpointForIPPort(peerMap, bind'.cache[r].ipp)]_vars

\* a cache whose endpoint has been stopped, or removed from the network
\* map, is not used
StoppedNotCached ==
    \A r \in {"v4", "v6"} :
        LET cache == bind.cache[r]
        IN cacheHit(heap, cache, r, cache.ipp) =>
               /\ cache.de \in Range(peerMap.byNodeKey)
               /\ conn.everHadKey
(***************************************************************************)
(* SpecChain: the heartbeat timer of one disco-capable peer between sends, *)
(* the key being zeroed and installed again, and the clock moving by a     *)
(* heartbeat interval.                                                     *)
(***************************************************************************)
NextChain ==
    \/ \E k \in 0..1 : SetPrivateKey(k)
    \/ SetNetworkMap(<<GatePeer>>)
    \/ ParseEndpoint(1)
    \/ SendNext(MaxSends, FALSE)
    \/ \E id \in DOMAIN heap : HeartbeatExpire(id)
    \/ \E g \in BagToSet(disco.orphans) : OrphanExpire(g)
    \/ \E g \in BagToSet(disco.beats) : HeartbeatRun(g)
    \/ BeatTick(heartbeatInterval)

SpecChain == Init /\ [][NextChain]_vars

\* the number of pending heartbeat timers of endpoint id
PendingTimers(id) ==
    (IF heap[id].heartBeatTimer # 0 /\ ~Fired(disco, heap, id) THEN 1 ELSE 0)
    + BagCardinality(disco.orphans)

\* C36: at most one heartbeat timer of a peer is pending, whatever the
\* order of sends, heartbeat callbacks that wait for the peer's mutex, and
\* stopAndReset.
C36_OneHeartbeatTimer == \A id \in DOMAIN heap : PendingTimers(id) <= 1

\* without stopAndReset in between, a callback that waits for the mutex
\* keeps a send from arming a second timer
OneTimerWhileReferenced ==
    [][SendNext(MaxSends, FALSE) =>
          \A id \in DOMAIN heap \cap DOMAIN heap' :
              Fired(disco, heap, id) => heap'[id].heartBeatTimer = heap[id].heartBeatTimer]_vars
(***************************************************************************)
(* SpecRekey: network maps in which a peer keeps its node key and comes    *)
(* with another disco key, and discovery pings signed with either key.     *)
(***************************************************************************)
RekeyNetMaps ==
    {<<>>,
     <<IndexNode(1, 1)>>,
     <<IndexNode(1, 2)>>,
     <<IndexNode(1, 1), IndexNode(2, 3)>>,
     <<IndexNode(1, 2), IndexNode(2, 3)>>}

NextRekey ==
    \/ SetPrivateKey(1)
    \/ DiscoPublicKey
    \/ \E nm \in RekeyNetMaps : SetNetworkMap(nm)
    \/ ParseEndpoint(1)
    \/ \E sender \in 1..3, src \in IndexSources : HandleDiscoPing(sender, src)

SpecRekey == Init /\ [][NextRekey]_vars

\* the disco-key index leads from the disco key of node n to the endpoint
\* of n's node key
DiscoIndexed(n) ==
    LET ep == endpointForDiscoKey(peerMap, n.DiscoKey)
    IN ep # 0 /\ heap[ep].publicKey = n.Key

\* C37: for each peer of the network map with a disco key, the disco-key
\* index maps that key to the endpoint of the peer's node key, also when
\* the peer came with another disco key before; a discovery message under
\* the peer's current key is attributed to the peer.
C37_DiscoIndexCurrent ==
    \A i \in 1..Len(conn.netMap.Peers) :
        conn.netMap.Peers[i].DiscoKey # 0 => DiscoIndexed(conn.netMap.Peers[i])

\* a disco key that moved to another node key is indexed under that node
MovedKeyIndexed ==
    \A i \in 1..Len(conn.netMap.Peers) :
        LET n == conn.netMap.Peers[i]
            ep == endpointForNodeKey(peerMap, n.Key)
        IN n.DiscoKey # 0 /\ ep # 0 /\ heap[ep].discoKey = n.DiscoKey => DiscoIndexed(n)
(***************************************************************************)
(* SpecRelist: the network map lists an address of a peer that the peer's  *)
(* pings had made known before, the session having grown old in between;   *)
(* the peer comes with the disco key it had or with another one.           *)
(***************************************************************************)
RelistNetMaps ==
    {<<Node(1, d, DerpAddrOf(1), eps)>> : d \in {1, 2}, eps \in {<<>>, <<Addr6>>}}

NextRelist ==
    \/ SetPrivateKey(1)
    \/ DiscoPublicKey
    \/ \E nm \in RelistNetMaps : SetNetworkMap(nm)
    \/ ParseEndpoint(1)
    \/ \E sender \in {1, 2}, src \in IndexSources : HandleDiscoPing(sender, src)
    \/ Tick(sessionActiveTimeout + 1)

SpecRelist == Init /\ [][NextRelist]_vars

\* after the step every address network map nm lists for its peer has a
\* state in the peer's endpoint
ListedHaveState(nm) ==
    LET ep == endpointForNodeKey(peerMap', nm[1].Key)
    IN ep # 0 /\ Range(nm[1].Endpoints) \subseteq DOMAIN heap'[ep].endpointState

\* C38: right after a network map has updated a peer, every address the
\* map lists for the peer has a state in the peer's endpoint, also an
\* address first learned from a ping more than sessionActiveTimeout back.
C38_ListedHaveState ==
    [][\A nm \in RelistNetMaps :
          SetNetworkMap(nm) /\ conn'.netMap # conn.netMap => ListedHaveState(nm)]_vars

\* the same for a peer that comes with the disco key its endpoint has:
\* SetNetworkMap then calls updateFromNode twice
ListedHaveStateSameKey ==
    [][\A nm \in RelistNetMaps :
          /\ SetNetworkMap(nm)
          /\ conn'.netMap # conn.netMap
          /\ LET ep == endpointForNodeKey(peerMap, nm[1].Key)
             IN ep # 0 => heap[ep].discoKey = nm[1].DiscoKey
          => ListedHaveState(nm)]_vars
(***************************************************************************)
(* SpecQuiet: a peer is taken out of the network map while CallMeMaybe     *)
(* messages of the peer come in and their handlers, the pings they start   *)
(* and the ping timers run.  Nothing is sent to the peer by the upper      *)
(* layer.                                                                  *)
(***************************************************************************)
QuietNetMaps == {<<CallPeer>>, <<>>}
MaxCalls == 1            \* handleCallMeMaybe goroutines that have not run yet

NextQuiet ==
    \/ SetPrivateKey(1)
    \/ DiscoPublicKey
    \/ \E nm \in QuietNetMaps : SetNetworkMap(nm)
    \/ Cardinality(disco.cmm) < MaxCalls /\ HandleDiscoCallMeMaybe(1, 1, {Addr4})
    \/ \E g \in disco.cmm : RunHandleCallMeMaybe(g)
    \/ \E g \in disco.pings : RunSendDiscoPing(g, FALSE)
    \/ \E id \in DOMAIN heap, txid \in 1..MaxTx : PingTimeout(id, txid)
    \/ TimerTick

SpecQuiet == Init /\ [][NextQuiet]_vars

\* endpoint id has left the network map: deleteDiscoEndpoint has run
\* stopAndReset on it
Stopped(id) == id \in DOMAIN heap /\ id \notin Range(peerMap.byNodeKey)

\* no best address, no ping waiting for its pong (each has its timeout
\* timer), no heartbeat timer
Quiet(de) ==
    /\ IsZeroIPPort(de.bestAddr.ipp)
    /\ DOMAIN de.sentPing = {}
    /\ de.heartBeatTimer = 0

\* C39: an endpoint on which stopAndReset has run, and to which nothing is
\* sent afterwards, stays as stopAndReset left it: no best address, no
\* outstanding ping, no heartbeat or ping timer, and no discovery ping goes
\* out for it, whatever handler or timer callback was under way.
C39_StoppedStaysQuiet ==
    /\ [](\A id \in DOMAIN heap : Stopped(id) => Quiet(heap[id]))
    /\ [][\A g \in disco.pings :
            Stopped(g.ep) /\ RunSendDiscoPing(g, FALSE) =>
                ~sendAddr(conn, relay, g.to, heap[g.ep].publicKey, now, 0, FALSE).sent]_vars

\* stopAndReset leaves the endpoint quiet
StopQuiets ==
    [][\A id \in DOMAIN heap :
          ~Stopped(id) /\ Stopped(id)' => Quiet(heap'[id])]_vars
(***************************************************************************)
(* SpecOrder: two CallMeMaybe messages of one peer come in over the relay, *)
(* the first with CallFirst as its addresses and after it the second with  *)
(* CallSecond; handleDiscoMessage starts a goroutine for each.             *)
(***************************************************************************)
CallFirst == {Addr4}
CallSecond == {Addr6}

\* a message with addresses eps was received and its handler has not run
CallPending(eps) == \E g \in disco.cmm : g.eps = eps

\* the handler that ran last was that of a message with addresses eps
CallHandled(eps) == \E id \in DOMAIN heap : heap[id].isCallMeMaybeEP = eps

\* the first message: nothing was received before it
ReceiveFirst ==
    /\ disco.cmm = {}
    /\ \A id \in DOMAIN heap : heap[id].isCallMeMaybeEP = {}
    /\ HandleDiscoCallMeMaybe(1, 1, CallFirst)

\* the second message: the first one was received before it
ReceiveSecond ==
    /\ CallPending(CallFirst) \/ CallHandled(CallFirst)
    /\ ~CallPending(CallSecond)
    /\ HandleDiscoCallMeMaybe(1, 1, CallSecond)

NextOrder ==
    \/ SetPrivateKey(1)
    \/ DiscoPublicKey
    \/ SetDERPMap(DerpMapOf({1}))
    \/ SetNetworkMap(<<CallPeer>>)
    \/ ReceiveFirst
    \/ ReceiveSecond
    \/ \E g \in disco.cmm : RunHandleCallMeMaybe(g)
    \/ \E g \in disco.pings : RunSendDiscoPing(g, FALSE)
    \/ \E id \in DOMAIN heap, txid \in 1..MaxTx : PingTimeout(id, txid)
    \/ TimerTick

SpecOrder == Init /\ [][NextOrder]_vars

\* C40: CallMeMaybe messages of a peer take effect in the order they came
\* in: when the handlers of a first and of a second message have both run,
\* the peer's isCallMeMaybeEP is the address set of the second message.
C40_LastMessageWins ==
    [][\A g \in disco.cmm :
          /\ RunHandleCallMeMaybe(g)
          /\ disco'.cmm = {}
          /\ CallPending(CallSecond) \/ CallHandled(CallSecond)
          => heap'[g.ep].isCallMeMaybeEP = CallSecond]_vars

\* each handler leaves the addresses of its own message
HandlerSetsOwn ==
    [][\A g \in disco.cmm :
          RunHandleCallMeMaybe(g) => heap'[g.ep].isCallMeMaybeEP = g.eps]_vars
====
